---- MODULE Spec2Model ----
(***************************************************************************)
(* Model of the lazy Stream library (src/src/lib/stream.ts).               *)
(*                                                                         *)
(* A Stream handle stores an iterator factory.  A handle is modelled as a  *)
(* source (fromArray over a heap array, or intRange) followed by the chain *)
(* of combinator stages that were applied to it; the k-th handle of the    *)
(* chain is the source with the first k stages.  A traversal is the vector *)
(* of generator states (one cursor per stage); a pull on the top cursor    *)
(* resumes the generators exactly as the generator bodies do.              *)
(***************************************************************************)
EXTENDS Integers, Sequences, FiniteSets, TLC

VARIABLES
  given,    \* the array the caller passed to fromArray, as the caller built it
  heap,     \* the arrays of the program: heap[1] is the caller's array
  src,      \* the source handle S: fromArray(heap[1]) or intRange(...)
  stages,   \* the combinator stages applied to S, in order: the derived handles
  seen,     \* seen[k]: the distinctItems set in the closure of stage k
  outs,     \* results of toArray() on the top handle: the first and the latest
  aux,      \* the latest call other than toArray(): its callback and its result
  srcOut,   \* the results of S.toArray(): the first and the latest
  tk,       \* a take(n) generator over an unbounded intRange, run step by step
  work,     \* the next() calls and callback calls made by the latest operation
  pt,       \* the two halves of S.partition(p), pulled one next() at a time
  gr        \* an iterator over S.group() and the streams it has emitted

vars == <<given, heap, src, stages, seen, outs, aux, srcOut, tk, work, pt, gr>>

(* ------------------------------ bounds --------------------------------- *)
\* longest source array of the single-operation specification
MaxLen == 3
\* the elements are 1..MaxVal
MaxVal == 3
\* longest source array, and longest chain of stages, of the session specification
SrcLen == 2
MaxStages == 2
\* the numbers sorted without a comparator are 1..MaxNum: one and two digits
MaxNum == 10

(* ------------------------------ values --------------------------------- *)
\* JavaScript's undefined (never an element of the modelled arrays)
Undef == 0

Vals == 1..MaxVal

\* IteratorResult { done: true, value: undefined }
Done == [done |-> TRUE, value |-> Undef]

\* IteratorResult { done: false, value: v }
Yield(v) == [done |-> FALSE, value |-> v]

Min(a, b) == IF a < b THEN a ELSE b

RECURSIVE SeqsUpTo(_)
SeqsUpTo(n) ==
  IF n = 0 THEN {<<>>}
  ELSE LET S == SeqsUpTo(n - 1)
       IN S \cup {Append(s, v) : s \in {t \in S : Len(t) = n - 1}, v \in Vals}

\* the arrays of at most n elements of V
RECURSIVE SeqsOver(_, _)
SeqsOver(V, n) ==
  IF n = 0 THEN {<<>>}
  ELSE LET S == SeqsOver(V, n - 1)
       IN S \cup {Append(s, v) : s \in {t \in S : Len(t) = n - 1}, v \in V}

Prefix(s, n) == SubSeq(s, 1, Min(n, Len(s)))

(* ------------------------ consumer callbacks --------------------------- *)
\* predicates (value, index) => boolean supplied by the consumer
PredIds == {"even", "le2"}

\* predicates that read the index
IndexPredIds == {"idxEven"}

\* x => p(x) && q(x) of two predicates of PredIds
AndPred(p, q) == IF p = q THEN p ELSE "evenLe2"

Pred(p, x, i) ==
  CASE p = "even" -> x % 2 = 0
    [] p = "le2"  -> x <= 2
    [] p = "evenLe2" -> x % 2 = 0 /\ x <= 2
    [] p = "idxEven" -> i % 2 = 0
    [] OTHER -> TRUE

\* mappers (value, index) => U supplied by the consumer
MapIds == {"dbl", "plusIdx", "id"}

\* mappers (value, index) => U[] handed to flatMap: x => [x, x], and
\* (x, i) => Array(i).fill(x), whose array is empty for the first element
ArrIds == {"twice", "idxCopies"}

MapFn(f, x, i) ==
  CASE f = "dbl" -> 2 * x
    [] f = "plusIdx" -> x + i
    [] f = "twice" -> <<x, x>>
    [] f = "idxCopies" -> [j \in 1..i |-> x]
    [] OTHER -> x

\* hashcode functions of distinct(); "id" stands for the omitted hashcode
KeyIds == {"id", "parity"}

KeyFn(f, x) == IF f = "parity" THEN x % 2 ELSE x

\* comparators (a, b) => number: all of them consistent (total preorders)
CmpIds == {"asc", "desc", "half"}

\* String(x) of a non-negative integer: its decimal digits
RECURSIVE NumberToString(_)
NumberToString(x) == IF x < 10 THEN <<x>> ELSE Append(NumberToString(x \div 10), x % 10)

\* the order of two strings by their code units: -1, 0 or 1
RECURSIVE StringCompare(_, _)
StringCompare(a, b) ==
  IF a = <<>> THEN (IF b = <<>> THEN 0 ELSE -1)
  ELSE IF b = <<>> THEN 1
  ELSE IF a[1] < b[1] THEN -1
  ELSE IF a[1] > b[1] THEN 1
  ELSE StringCompare(Tail(a), Tail(b))

\* "default" stands for the omitted comparator: Array.prototype.sort(undefined)
\* converts the elements to strings and orders them by code units
CompareFn(c, a, b) ==
  CASE c = "asc"  -> a - b
    [] c = "desc" -> b - a
    [] c = "half" -> (a \div 2) - (b \div 2)
    [] c = "default" -> StringCompare(NumberToString(a), NumberToString(b))
    [] OTHER -> 0

(* ------------------------------ handles -------------------------------- *)
\* a stage object: op, numeric argument, callback id, the other stream of concat
Stage(op, n, fn, other) == [op |-> op, n |-> n, fn |-> fn, other |-> other]

\* a generator object that has not been started yet
NewCursor == [pc |-> "new", nxt |-> Done, cnt |-> 0, sub |-> <<>>]

\* iteratorFn(): fresh generators for the source and every stage; the
\* distinctItems sets live in the closures of distinct() and are passed in.
\* pulls[k] counts the next() calls on the generator of handle k (0 is the
\* source), calls[k] the invocations of the callback of stage k
NewTraversal(st, sn) ==
  [src |-> [pc |-> "new", x |-> 0],
   cur |-> [k \in 1..Len(st) |-> NewCursor],
   seen |-> sn,
   pulls |-> [k \in 0..Len(st) |-> 0],
   calls |-> [k \in 1..Len(st) |-> 0]]

\* the callback of stage k has been invoked once more
Called(tr, k) == [tr EXCEPT !.calls[k] = @ + 1]

\* a traversal whose counts are not kept
Uncounted(tr) ==
  [tr EXCEPT !.pulls = [k \in DOMAIN tr.pulls |-> 0],
             !.calls = [k \in DOMAIN tr.calls |-> 0]]

NoSeen(st) == [k \in 1..Len(st) |-> {}]

SetCur(tr, k, c) == [tr EXCEPT !.cur[k] = c]

\* the environment of a traversal: the heap of arrays and the handle's chain
Env(hp, s, st) == [heap |-> hp, src |-> s, stages |-> st]

(* ------------------------------ sources -------------------------------- *)
\* fromArray(items): the handle refers to the caller's array, it does not copy it
FromArray(ref) == [kind |-> "array", ref |-> ref, start |-> 0, hi |-> 0, has |-> "", nx |-> ""]

\* intRange(start, hasNext, next)
IntRange(start, has, hi, nx) ==
  [kind |-> "range", ref |-> 0, start |-> start, hi |-> hi, has |-> has, nx |-> nx]

\* the largest number an intRange with hasNext "except" yields
RangeCap == MaxVal + 2

\* the hasNext callbacks used: x => x <= hi, x => x !== hi && x <= RangeCap,
\* and x => true
HasNext(s, x) ==
  CASE s.has = "le" -> x <= s.hi
    [] s.has = "except" -> x # s.hi /\ x <= RangeCap
    [] OTHER -> TRUE

\* the next callbacks used: the default x => x + 1, x => x + 2, and
\* x => (x + 1) % hi
RangeNext(s, x) ==
  CASE s.nx = "wrap" -> (x + 1) % s.hi
    [] s.nx = "step2" -> x + 2
    [] OTHER -> x + 1

\* one next() of fromArray's generator: for (const item of items) yield item
FromArrayGenerate(e, tr) ==
  LET a == e.heap[e.src.ref]
      i == tr.src.x
  IN IF tr.src.pc # "done" /\ i < Len(a)
     THEN [tr |-> [tr EXCEPT !.src = [pc |-> "yield", x |-> i + 1]], r |-> Yield(a[i + 1])]
     ELSE [tr |-> [tr EXCEPT !.src.pc = "done"], r |-> Done]

\* intRange as a do-while loop: start is yielded before hasNext is asked
IntRangeGenerateYieldFirst(e, tr) ==
  LET x == IF tr.src.pc = "new" THEN e.src.start ELSE RangeNext(e.src, tr.src.x)
  IN IF tr.src.pc # "done" /\ (tr.src.pc = "new" \/ HasNext(e.src, x))
     THEN [tr |-> [tr EXCEPT !.src = [pc |-> "yield", x |-> x]], r |-> Yield(x)]
     ELSE [tr |-> [tr EXCEPT !.src.pc = "done"], r |-> Done]

\* one next() of intRange's generator: while (hasNext(x)) { yield x; x = next(x) }
IntRangeGenerate(e, tr) ==
  LET x == IF tr.src.pc = "new" THEN e.src.start ELSE RangeNext(e.src, tr.src.x)
  IN IF tr.src.pc # "done" /\ HasNext(e.src, x)
     THEN [tr |-> [tr EXCEPT !.src = [pc |-> "yield", x |-> x]], r |-> Yield(x)]
     ELSE [tr |-> [tr EXCEPT !.src.pc = "done"], r |-> Done]

SourcePull(e, tr) ==
  IF e.src.kind = "array" THEN FromArrayGenerate(e, tr) ELSE IntRangeGenerate(e, tr)

(* ------------------------- combinator generators ----------------------- *)
\* what a next() leaves behind: the traversal afterwards and the IteratorResult
Res(tr, r) == [tr |-> tr, r |-> r]

RECURSIVE Pull(_, _, _)
RECURSIVE FilteringLoop(_, _, _)
RECURSIVE TakeLoop(_, _, _)
RECURSIVE DropLoop(_, _, _)
RECURSIVE FlattenLoop(_, _, _)
RECURSIVE DropWhileLoop(_, _, _)
RECURSIVE InitLoop(_, _, _)
RECURSIVE ReplicateRound(_, _, _)
RECURSIVE TailsPull(_, _)

\* IterableStream.asIterator: a generator that passes the values of
\* iteratorFn() through, one upstream next() per next()
AsIterator(e, tr, k) == Pull(e, tr, k - 1)

\* mutant of Predicate: the predicate of the declined half does not negate
PredicateNotNegated(st, sn, value, index) ==
  IF st.op = "distinct"
  THEN LET code == KeyFn(st.fn, value)
       IN IF code \notin sn
          THEN [ok |-> TRUE, seen |-> sn \cup {code}]
          ELSE [ok |-> FALSE, seen |-> sn]
  ELSE [ok |-> Pred(st.fn, value, index), seen |-> sn]

\* the predicate of a Filtering stage, applied to (value, index); the predicate
\* that distinct() builds reads and extends the distinctItems set of its closure;
\* the predicate of the declined half of partition is (x) => !(predicate(x)),
\* which hands no index on
Predicate(st, sn, value, index) ==
  IF st.op = "distinct"
  THEN LET code == KeyFn(st.fn, value)
       IN IF code \notin sn
          THEN [ok |-> TRUE, seen |-> sn \cup {code}]
          ELSE [ok |-> FALSE, seen |-> sn]
  ELSE IF st.op = "declined"
       THEN [ok |-> ~Pred(st.fn, value, Undef), seen |-> sn]
       ELSE [ok |-> Pred(st.fn, value, index), seen |-> sn]

\* mutant of FilteringStart: the first upstream element is fetched and dropped
FilteringStartSkipFirst(e, tr, k) ==
  LET Again(q) ==
        FilteringLoop(e, SetCur(q.tr, k, [q.tr.cur[k] EXCEPT !.pc = "run", !.cnt = 0, !.nxt = q.r]), k)
      Fetched(p) == Again(AsIterator(e, p.tr, k))
  IN Fetched(AsIterator(e, tr, k))

\* Filtering.asIterator, first next(): index = 0; next = iterator.next()
FilteringStart(e, tr, k) ==
  LET Fetched(p) ==
        FilteringLoop(e, SetCur(p.tr, k, [p.tr.cur[k] EXCEPT !.pc = "run", !.cnt = 0, !.nxt = p.r]), k)
  IN Fetched(AsIterator(e, tr, k))

\* Filtering.asIterator, advancing: index += 1; next = iterator.next()
FilteringAdvance(e, tr, k) ==
  LET Fetched(p) ==
        FilteringLoop(e, SetCur(p.tr, k, [p.tr.cur[k] EXCEPT !.cnt = @ + 1, !.nxt = p.r]), k)
  IN Fetched(AsIterator(e, tr, k))

\* mutant of FilteringLoop: index is not advanced past a rejected element, so
\* that it is the position in the filtered output
FilteringLoopOutputIndex(e, tr, k) ==
  LET c == tr.cur[k]
      Decide(pr) ==
        IF pr.ok
        THEN Res([Called(tr, k) EXCEPT !.seen[k] = pr.seen, !.cur[k].pc = "yield"],
                 Yield(c.nxt.value))
        ELSE FilteringAdvance(e, [Called(tr, k) EXCEPT !.seen[k] = pr.seen, !.cur[k].cnt = @ - 1], k)
  IN IF c.nxt.done
     THEN Res(SetCur(tr, k, [c EXCEPT !.pc = "done"]), Done)
     ELSE Decide(Predicate(e.stages[k], tr.seen[k], c.nxt.value, c.cnt))

\* Filtering.asIterator, the while loop up to its next yield
FilteringLoop(e, tr, k) ==
  LET c == tr.cur[k]
      Decide(pr) ==
        IF pr.ok
        THEN Res([Called(tr, k) EXCEPT !.seen[k] = pr.seen, !.cur[k].pc = "yield"],
                 Yield(c.nxt.value))
        ELSE FilteringAdvance(e, [Called(tr, k) EXCEPT !.seen[k] = pr.seen], k)
  IN IF c.nxt.done
     THEN Res(SetCur(tr, k, [c EXCEPT !.pc = "done"]), Done)
     ELSE Decide(Predicate(e.stages[k], tr.seen[k], c.nxt.value, c.cnt))

\* one next() of Filtering.asIterator
FilteringPull(e, tr, k) ==
  CASE tr.cur[k].pc = "new" -> FilteringStart(e, tr, k)
    [] tr.cur[k].pc = "yield" -> FilteringAdvance(e, tr, k)
    [] OTHER -> Res(tr, Done)

\* mutant of MappingPull: the mapper is given index 0 for every element
MappingPullNoIndex(e, tr, k) ==
  LET c == tr.cur[k]
      Fetched(p) ==
        IF p.r.done
        THEN Res(SetCur(p.tr, k, [c EXCEPT !.pc = "done", !.nxt = p.r]), Done)
        ELSE Res(SetCur(Called(p.tr, k), k, [c EXCEPT !.pc = "yield", !.nxt = p.r]),
                 Yield(MapFn(e.stages[k].fn, p.r.value, 0)))
  IN IF c.pc = "done" THEN Res(tr, Done) ELSE Fetched(AsIterator(e, tr, k))

\* one next() of Mapping.asIterator: next = iterator.next(), then the mapper is
\* applied to (value, index) and its result is yielded
MappingPull(e, tr, k) ==
  LET c == tr.cur[k]
      index == IF c.pc = "new" THEN 0 ELSE c.cnt + 1
      Fetched(p) ==
        IF p.r.done
        THEN Res(SetCur(p.tr, k, [c EXCEPT !.pc = "done", !.nxt = p.r]), Done)
        ELSE Res(SetCur(Called(p.tr, k), k, [c EXCEPT !.pc = "yield", !.cnt = index, !.nxt = p.r]),
                 Yield(MapFn(e.stages[k].fn, p.r.value, index)))
  IN IF c.pc = "done" THEN Res(tr, Done) ELSE Fetched(AsIterator(e, tr, k))

\* mutant of FlattenLoop: only the first item of every array is yielded
FlattenLoopFirstOnly(e, tr, k) ==
  LET c == tr.cur[k]
      Fetched(p) ==
        IF p.r.done
        THEN Res(SetCur(p.tr, k, [c EXCEPT !.pc = "done", !.nxt = p.r]), Done)
        ELSE FlattenLoop(e, SetCur(p.tr, k, [c EXCEPT !.pc = "yield", !.nxt = p.r, !.sub = p.r.value]), k)
  IN IF Len(c.sub) > 0
     THEN Res(SetCur(tr, k, [c EXCEPT !.sub = <<>>]), Yield(Head(c.sub)))
     ELSE Fetched(AsIterator(e, tr, k))

\* Flattening.flatten up to its next yield: yield* value hands out the items of
\* the array in sub one by one; when none is left, next = iterator.next() and
\* the loop goes on with the array fetched
FlattenLoop(e, tr, k) ==
  LET c == tr.cur[k]
      Fetched(p) ==
        IF p.r.done
        THEN Res(SetCur(p.tr, k, [c EXCEPT !.pc = "done", !.nxt = p.r]), Done)
        ELSE FlattenLoop(e, SetCur(p.tr, k, [c EXCEPT !.pc = "yield", !.nxt = p.r, !.sub = p.r.value]), k)
  IN IF Len(c.sub) > 0
     THEN Res(SetCur(tr, k, [c EXCEPT !.sub = Tail(@)]), Yield(Head(c.sub)))
     ELSE Fetched(AsIterator(e, tr, k))

\* one next() of Flattening.flatten
FlatteningPull(e, tr, k) ==
  IF tr.cur[k].pc = "done" THEN Res(tr, Done) ELSE FlattenLoop(e, tr, k)

\* the guard of the yield in take, takeWhile and takeUntil, evaluated after the
\* generator has already fetched the element after value
TakeGuard(st, c, value, nextDone) ==
  CASE st.op = "take"      -> nextDone = FALSE /\ c.cnt < st.n
    [] st.op = "takeWhile" -> nextDone = FALSE /\ Pred(st.fn, value, 0)
    [] st.op = "takeUntil" -> nextDone = FALSE /\ ~Pred(st.fn, value, 0)
    [] OTHER -> FALSE

\* the while loop of take / takeWhile / takeUntil up to its next yield:
\*   const value = next.value; next = iterator.next(); if (guard) yield value
\* take keeps looping when the guard fails, takeWhile and takeUntil break; their
\* guard invokes the predicate only when the fetched next is not done
TakeLoop(e, tr, k) ==
  LET c == tr.cur[k]
      st == e.stages[k]
      Guarded(t) == IF st.op # "take" /\ ~t.r.done THEN Called(t.tr, k) ELSE t.tr
      Fetched(p) ==
        IF TakeGuard(st, c, c.nxt.value, p.r.done)
        THEN Res(SetCur(Guarded(p), k, [c EXCEPT !.nxt = p.r, !.pc = "yield"]), Yield(c.nxt.value))
        ELSE IF st.op = "take"
             THEN TakeLoop(e, SetCur(p.tr, k, [c EXCEPT !.nxt = p.r]), k)
             ELSE Res(SetCur(Guarded(p), k, [c EXCEPT !.nxt = p.r, !.pc = "done"]), Done)
  IN IF c.nxt.done
     THEN Res(SetCur(tr, k, [c EXCEPT !.pc = "done"]), Done)
     ELSE Fetched(Pull(e, tr, k - 1))

\* first next() of take / takeWhile / takeUntil: next = iterator.next(); count = 0
TakeStart(e, tr, k) ==
  LET Fetched(p) ==
        TakeLoop(e, SetCur(p.tr, k, [p.tr.cur[k] EXCEPT !.pc = "run", !.cnt = 0, !.nxt = p.r]), k)
  IN Fetched(Pull(e, tr, k - 1))

\* one next() of the generator of take(n), takeWhile(p) or takeUntil(p); after
\* its yield take does count += 1
TakePull(e, tr, k) ==
  CASE tr.cur[k].pc = "new" -> TakeStart(e, tr, k)
    [] tr.cur[k].pc = "yield" ->
         TakeLoop(e, [tr EXCEPT !.cur[k].cnt = IF e.stages[k].op = "take" THEN @ + 1 ELSE @], k)
    [] OTHER -> Res(tr, Done)

\* drop whose test is count > n: one element too many is skipped
DropLoopOneMore(e, tr, k) ==
  LET c == tr.cur[k]
      Fetched(p) ==
        IF c.cnt > e.stages[k].n
        THEN Res(SetCur(p.tr, k, [c EXCEPT !.nxt = p.r, !.pc = "yield"]), Yield(c.nxt.value))
        ELSE DropLoop(e, SetCur(p.tr, k, [c EXCEPT !.nxt = p.r, !.cnt = @ + 1]), k)
  IN IF c.nxt.done
     THEN Res(SetCur(tr, k, [c EXCEPT !.pc = "done"]), Done)
     ELSE Fetched(Pull(e, tr, k - 1))

\* the while loop of drop(n) up to its next yield:
\*   const value = next.value; next = iterator.next(); if (count >= n) yield value; count += 1
DropLoop(e, tr, k) ==
  LET c == tr.cur[k]
      Fetched(p) ==
        IF c.cnt >= e.stages[k].n
        THEN Res(SetCur(p.tr, k, [c EXCEPT !.nxt = p.r, !.pc = "yield"]), Yield(c.nxt.value))
        ELSE DropLoop(e, SetCur(p.tr, k, [c EXCEPT !.nxt = p.r, !.cnt = @ + 1]), k)
  IN IF c.nxt.done
     THEN Res(SetCur(tr, k, [c EXCEPT !.pc = "done"]), Done)
     ELSE Fetched(Pull(e, tr, k - 1))

\* first next() of drop(n): next = iterator.next(); count = 0
DropStart(e, tr, k) ==
  LET Fetched(p) ==
        DropLoop(e, SetCur(p.tr, k, [p.tr.cur[k] EXCEPT !.pc = "run", !.cnt = 0, !.nxt = p.r]), k)
  IN Fetched(Pull(e, tr, k - 1))

\* one next() of the generator of drop(n)
DropPull(e, tr, k) ==
  CASE tr.cur[k].pc = "new" -> DropStart(e, tr, k)
    [] tr.cur[k].pc = "yield" -> DropLoop(e, [tr EXCEPT !.cur[k].cnt = @ + 1], k)
    [] OTHER -> Res(tr, Done)

\* the test of dropWhile / dropUntil that ends the dropping:
\*   !predicate(value) for dropWhile, predicate(value) for dropUntil
DropEnds(st, value) ==
  IF st.op = "dropWhile" THEN ~Pred(st.fn, value, 0) ELSE Pred(st.fn, value, 0)

\* dropWhile / dropUntil whose take flag is never set: every element is tested
DropWhileLoopUnlatched(e, tr, k) ==
  LET c == tr.cur[k]
      Fetched(p) == DropWhileLoop(e, SetCur(p.tr, k, [c EXCEPT !.nxt = p.r]), k)
  IN IF c.nxt.done
     THEN Res(SetCur(tr, k, [c EXCEPT !.pc = "done"]), Done)
     ELSE IF DropEnds(e.stages[k], c.nxt.value)
          THEN Res(SetCur(Called(tr, k), k, [c EXCEPT !.pc = "yield"]), Yield(c.nxt.value))
          ELSE Fetched(Pull(e, Called(tr, k), k - 1))

\* the while loop of dropWhile / dropUntil up to its next yield (cnt is take):
\*   if (!take && <test>) take = true; if (take) yield value; next = iterator.next()
\* the predicate is invoked only while take is false
DropWhileLoop(e, tr, k) ==
  LET c == tr.cur[k]
      t == IF c.cnt = 0 THEN Called(tr, k) ELSE tr
      Fetched(p) == DropWhileLoop(e, SetCur(p.tr, k, [c EXCEPT !.nxt = p.r]), k)
  IN IF c.nxt.done
     THEN Res(SetCur(tr, k, [c EXCEPT !.pc = "done"]), Done)
     ELSE IF c.cnt = 1 \/ DropEnds(e.stages[k], c.nxt.value)
          THEN Res(SetCur(t, k, [c EXCEPT !.pc = "yield", !.cnt = 1]), Yield(c.nxt.value))
          ELSE Fetched(Pull(e, t, k - 1))

\* one next() of the generator of dropWhile(p) or dropUntil(p): the first
\* does next = iterator.next(); take = false, a later one the next = iterator.next()
\* that follows the yield
DropWhilePull(e, tr, k) ==
  LET Fetched(p) ==
        DropWhileLoop(e, SetCur(p.tr, k, [p.tr.cur[k] EXCEPT !.pc = "run", !.nxt = p.r]), k)
  IN CASE tr.cur[k].pc = "new" -> Fetched(Pull(e, tr, k - 1))
       [] tr.cur[k].pc = "yield" -> Fetched(Pull(e, tr, k - 1))
       [] OTHER -> Res(tr, Done)

\* init whose yield is not guarded by the fetched next: the last element is kept
InitLoopKeepLast(e, tr, k) ==
  LET c == tr.cur[k]
      Fetched(p) ==
        Res(SetCur(p.tr, k, [c EXCEPT !.nxt = p.r, !.pc = "yield"]), Yield(c.nxt.value))
  IN IF c.nxt.done
     THEN Res(SetCur(tr, k, [c EXCEPT !.pc = "done"]), Done)
     ELSE Fetched(Pull(e, tr, k - 1))

\* the while loop of init up to its next yield:
\*   const value = next.value; next = iterator.next(); if (next.done === false) yield value
InitLoop(e, tr, k) ==
  LET c == tr.cur[k]
      Fetched(p) ==
        IF p.r.done = FALSE
        THEN Res(SetCur(p.tr, k, [c EXCEPT !.nxt = p.r, !.pc = "yield"]), Yield(c.nxt.value))
        ELSE InitLoop(e, SetCur(p.tr, k, [c EXCEPT !.nxt = p.r]), k)
  IN IF c.nxt.done
     THEN Res(SetCur(tr, k, [c EXCEPT !.pc = "done"]), Done)
     ELSE Fetched(Pull(e, tr, k - 1))

\* one next() of the generator of init(); the first does next = iterator.next()
InitPull(e, tr, k) ==
  LET Fetched(p) ==
        InitLoop(e, SetCur(p.tr, k, [p.tr.cur[k] EXCEPT !.pc = "run", !.nxt = p.r]), k)
  IN CASE tr.cur[k].pc = "new" -> Fetched(Pull(e, tr, k - 1))
       [] tr.cur[k].pc = "yield" -> InitLoop(e, tr, k)
       [] OTHER -> Res(tr, Done)

\* the while loop of tail up to its next yield:
\*   const value = next.value; next = iterator.next(); yield value
TailLoop(e, tr, k) ==
  LET c == tr.cur[k]
      Fetched(p) ==
        Res(SetCur(p.tr, k, [c EXCEPT !.nxt = p.r, !.pc = "yield"]), Yield(c.nxt.value))
  IN IF c.nxt.done
     THEN Res(SetCur(tr, k, [c EXCEPT !.pc = "done"]), Done)
     ELSE Fetched(Pull(e, tr, k - 1))

\* first next() of tail: next = iterator.next(); if it is not done,
\* next = iterator.next() once more, which skips the first element
TailStart(e, tr, k) ==
  LET Second(q) ==
        TailLoop(e, SetCur(q.tr, k, [q.tr.cur[k] EXCEPT !.pc = "run", !.nxt = q.r]), k)
      First(p) == IF p.r.done THEN Second(p) ELSE Second(Pull(e, p.tr, k - 1))
  IN First(Pull(e, tr, k - 1))

\* one next() of the generator of tail()
TailPull(e, tr, k) ==
  CASE tr.cur[k].pc = "new" -> TailStart(e, tr, k)
    [] tr.cur[k].pc = "yield" -> TailLoop(e, tr, k)
    [] OTHER -> Res(tr, Done)

\* one next() of the generator of append(item), item being the stage's n: the
\* upstream is passed through, then item is yielded
AppendPull(e, tr, k) ==
  LET c == tr.cur[k]
      Fetched(p) ==
        IF p.r.done
        THEN Res(SetCur(p.tr, k, [c EXCEPT !.pc = "last", !.nxt = p.r]), Yield(e.stages[k].n))
        ELSE Res(SetCur(p.tr, k, [c EXCEPT !.pc = "one", !.nxt = p.r]), p.r)
  IN CASE c.pc \in {"new", "one"} -> Fetched(Pull(e, tr, k - 1))
       [] OTHER -> Res(SetCur(tr, k, [c EXCEPT !.pc = "done"]), Done)

\* iteratorFn() of the upstream of stage k: fresh generators for the source and
\* the stages below k; calls[k] counts these invocations for replicate
UpstreamIterator(tr, k) ==
  [Called(tr, k) EXCEPT !.src = [pc |-> "new", x |-> 0],
                        !.cur = [j \in DOMAIN tr.cur |-> IF j < k THEN NewCursor ELSE tr.cur[j]]]

\* replicate that creates its upstream iterator once, before the for loop
ReplicateRoundOneIterator(e, tr, k) ==
  LET c == tr.cur[k]
      Fetched(p) ==
        IF p.r.done
        THEN ReplicateRound(e, SetCur(p.tr, k, [c EXCEPT !.cnt = @ + 1]), k)
        ELSE Res(SetCur(p.tr, k, [c EXCEPT !.pc = "yield"]), p.r)
  IN IF c.cnt < e.stages[k].n
     THEN Fetched(Pull(e, IF c.cnt = 0 THEN UpstreamIterator(tr, k) ELSE tr, k - 1))
     ELSE Res(SetCur(tr, k, [c EXCEPT !.pc = "done"]), Done)

\* a turn of the for loop of replicate(n) up to its next yield (cnt is counter):
\*   for (counter < n) { iterator = iteratorFn(); next = iterator.next(); while ... }
ReplicateRound(e, tr, k) ==
  LET c == tr.cur[k]
      Fetched(p) ==
        IF p.r.done
        THEN ReplicateRound(e, SetCur(p.tr, k, [c EXCEPT !.cnt = @ + 1]), k)
        ELSE Res(SetCur(p.tr, k, [c EXCEPT !.pc = "yield"]), p.r)
  IN IF c.cnt < e.stages[k].n
     THEN Fetched(Pull(e, UpstreamIterator(tr, k), k - 1))
     ELSE Res(SetCur(tr, k, [c EXCEPT !.pc = "done"]), Done)

\* one next() of the generator of replicate(n): after a yield the inner while
\* loop does next = iterator.next() and, at the end of the upstream,
\* counter += 1 and the next turn of the for loop
ReplicatePull(e, tr, k) ==
  LET c == tr.cur[k]
      Fetched(p) ==
        IF p.r.done
        THEN ReplicateRound(e, SetCur(p.tr, k, [c EXCEPT !.cnt = @ + 1]), k)
        ELSE Res(SetCur(p.tr, k, [c EXCEPT !.pc = "yield"]), p.r)
  IN CASE c.pc = "new" -> ReplicateRound(e, tr, k)
       [] c.pc = "yield" -> Fetched(Pull(e, tr, k - 1))
       [] OTHER -> Res(tr, Done)


\* pulling from the second iterator of concat: iteratorFnTwo() of the other stream
ConcatTwo(e, tr, k, sub) ==
  LET other == e.stages[k].other
      Fetched(q) ==
        Res([tr EXCEPT !.cur[k].pc = IF q.r.done THEN "done" ELSE "two",
                       !.cur[k].nxt = q.r,
                       !.cur[k].sub = q.tr],
            q.r)
  IN Fetched(Pull(Env(e.heap, e.src, other), sub, Len(other)))

\* one next() of the generator of concat(other): the first loop passes the
\* upstream through, the second loop the other stream
ConcatPull(e, tr, k) ==
  LET c == tr.cur[k]
      other == e.stages[k].other
      Fetched(p) ==
        IF p.r.done
        THEN ConcatTwo(e, p.tr, k, NewTraversal(other, NoSeen(other)))
        ELSE Res(SetCur(p.tr, k, [c EXCEPT !.pc = "one", !.nxt = p.r]), p.r)
  IN CASE c.pc \in {"new", "one"} -> Fetched(Pull(e, tr, k - 1))
       [] c.pc = "two" -> ConcatTwo(e, tr, k, c.sub)
       [] OTHER -> Res(tr, Done)

\* mutant of SortedPull: the stream sorted() returns starts a traversal of the
\* upstream when it is traversed
SortedPullLazy(e, tr, k) ==
  LET a == e.heap[e.stages[k].n]
      Fetched(p) ==
        IF p.tr.cur[k].cnt < Len(a)
        THEN Res(SetCur(p.tr, k, [p.tr.cur[k] EXCEPT !.pc = "yield", !.cnt = @ + 1]),
                 Yield(a[p.tr.cur[k].cnt + 1]))
        ELSE Res(SetCur(p.tr, k, [p.tr.cur[k] EXCEPT !.pc = "done"]), Done)
  IN IF tr.cur[k].pc = "done" THEN Res(tr, Done)
     ELSE IF tr.cur[k].pc = "new" THEN Fetched(Pull(e, tr, k - 1))
     ELSE Fetched(Res(tr, Done))

\* one next() of the stream sorted() returns: fromArray over the sorted array,
\* which the stage refers to by its heap index n
SortedPull(e, tr, k) ==
  LET c == tr.cur[k]
      a == e.heap[e.stages[k].n]
  IN IF c.pc # "done" /\ c.cnt < Len(a)
     THEN Res(SetCur(tr, k, [c EXCEPT !.pc = "yield", !.cnt = @ + 1]), Yield(a[c.cnt + 1]))
     ELSE Res(SetCur(tr, k, [c EXCEPT !.pc = "done"]), Done)

\* iterator.next() on the cursor of handle k of the chain (handle 0 is the source)
Pull(e, tr, k) ==
  LET t == [tr EXCEPT !.pulls[k] = @ + 1]
  IN IF k = 0 THEN SourcePull(e, t)
     ELSE CASE e.stages[k].op \in {"filter", "distinct", "declined"} -> FilteringPull(e, t, k)
            [] e.stages[k].op = "map" -> MappingPull(e, t, k)
            [] e.stages[k].op = "flatten" -> FlatteningPull(e, t, k)
            [] e.stages[k].op \in {"take", "takeWhile", "takeUntil"} -> TakePull(e, t, k)
            [] e.stages[k].op = "drop" -> DropPull(e, t, k)
            [] e.stages[k].op \in {"dropWhile", "dropUntil"} -> DropWhilePull(e, t, k)
            [] e.stages[k].op = "init" -> InitPull(e, t, k)
            [] e.stages[k].op = "tail" -> TailPull(e, t, k)
            [] e.stages[k].op = "append" -> AppendPull(e, t, k)
            [] e.stages[k].op = "replicate" -> ReplicatePull(e, t, k)
            [] e.stages[k].op = "concat" -> ConcatPull(e, t, k)
            [] e.stages[k].op = "sorted" -> SortedPull(e, t, k)
            [] OTHER -> Res(t, Done)

(* -------------------------- terminal operations ------------------------ *)
RECURSIVE ToArrayLoop(_, _, _)
\* the while loop of toArray: items = [...items, next.value]; next = iterator.next()
ToArrayLoop(e, tr, items) ==
  LET Fetched(p) ==
        IF p.r.done THEN [tr |-> p.tr, out |-> items]
        ELSE ToArrayLoop(e, p.tr, Append(items, p.r.value))
  IN Fetched(Pull(e, tr, Len(e.stages)))

\* toArray() on the top handle of e; sn are the distinctItems sets of its stages.
\* The result is a new array; tr.seen are the sets after the traversal
ToArray(e, sn) == ToArrayLoop(e, NewTraversal(e.stages, sn), <<>>)

\* head(): one next() on a fresh iterator
StreamHead(e, sn) ==
  LET Fetched(p) == [tr |-> p.tr, out |-> IF p.r.done THEN Undef ELSE p.r.value]
  IN Fetched(Pull(e, NewTraversal(e.stages, sn), Len(e.stages)))

\* the while loop of last(): value = next.value; next = iterator.next()
RECURSIVE LastLoop(_, _, _, _)
LastLoop(e, tr, nxt, value) ==
  LET Fetched(p) == LastLoop(e, p.tr, p.r, nxt.value)
  IN IF nxt.done THEN [tr |-> tr, out |-> value]
     ELSE Fetched(Pull(e, tr, Len(e.stages)))

\* last(): value starts undefined and is returned after the loop
StreamLast(e, sn) ==
  LET Fetched(p) == LastLoop(e, p.tr, p.r, Undef)
  IN Fetched(Pull(e, NewTraversal(e.stages, sn), Len(e.stages)))

\* the while loop of size(): size += 1; next = iterator.next()
RECURSIVE SizeLoop(_, _, _, _)
SizeLoop(e, tr, nxt, size) ==
  LET Fetched(p) == SizeLoop(e, p.tr, p.r, size + 1)
  IN IF nxt.done THEN [tr |-> tr, out |-> size]
     ELSE Fetched(Pull(e, tr, Len(e.stages)))

\* size()
StreamSize(e, sn) ==
  LET Fetched(p) == SizeLoop(e, p.tr, p.r, 0)
  IN Fetched(Pull(e, NewTraversal(e.stages, sn), Len(e.stages)))

\* isEmpty(): one next() on a fresh iterator; true unless it gave an element
IsEmpty(e, sn) ==
  LET Fetched(p) == [tr |-> p.tr, out |-> ~(p.r.done = FALSE)]
  IN Fetched(Pull(e, NewTraversal(e.stages, sn), Len(e.stages)))


\* the reducer callbacks used: (acc, x) => acc + x, (acc, x, i) => acc + x * i,
\* and (acc, x) => x > acc ? x : undefined
ReduceIds == {"sum", "weighted", "ascend"}

ReducerFn(f, acc, x, i) ==
  CASE f = "sum" -> acc + x
    [] f = "weighted" -> acc + x * i
    [] f = "ascend" -> IF acc # Undef /\ x > acc THEN x ELSE Undef
    [] OTHER -> acc

RECURSIVE ReduceLoop(_, _, _, _, _, _, _)
\* the while loop of reduce; calls is the list of the invocations of reducerfn,
\* each as <<previousValue, currentValue, currentIndex>>
ReduceLoop(e, tr, nxt, f, reduced, index, calls) ==
  LET Fetched(p) ==
        IF reduced = Undef
        THEN ReduceLoop(e, p.tr, p.r, f, nxt.value, index + 1, calls)
        ELSE ReduceLoop(e, p.tr, p.r, f, ReducerFn(f, reduced, nxt.value, index), index + 1,
                        Append(calls, <<reduced, nxt.value, index>>))
  IN IF nxt.done THEN [tr |-> tr, out |-> reduced, calls |-> calls]
     ELSE Fetched(Pull(e, tr, Len(e.stages)))

\* reduce(reducerfn, initialValue); initialValue is Undef when it is omitted
Reduce(e, sn, f, initialValue) ==
  LET Started(p) == ReduceLoop(e, p.tr, p.r, f, initialValue, 0, <<>>)
  IN Started(Pull(e, NewTraversal(e.stages, sn), Len(e.stages)))

(* ------------------------------- partition ----------------------------- *)
\* partition(predicate): [accepted, declined], two Filtering stages over the
\* same upstream handle
Partition(p) == <<Stage("filter", 0, p, <<>>), Stage("declined", 0, p, <<>>)>>

(* -------------------------------- sorted ------------------------------- *)
\* Array.prototype.sort(compareFn) is a stable sort: x goes behind every element
\* that does not compare greater than it
\* mutant of SortInsert: x goes in front of the elements it compares equal to
SortInsertUnstable(a, x, cmp) ==
  LET keep == {i \in 1..Len(a) : \A j \in 1..i : CompareFn(cmp, a[j], x) < 0}
      n == Cardinality(keep)
  IN SubSeq(a, 1, n) \o <<x>> \o SubSeq(a, n + 1, Len(a))

SortInsert(a, x, cmp) ==
  LET keep == {i \in 1..Len(a) : \A j \in 1..i : CompareFn(cmp, a[j], x) <= 0}
      n == Cardinality(keep)
  IN SubSeq(a, 1, n) \o <<x>> \o SubSeq(a, n + 1, Len(a))

RECURSIVE ArraySort(_, _)
ArraySort(a, cmp) ==
  IF Len(a) = 0 THEN <<>>
  ELSE SortInsert(ArraySort(SubSeq(a, 1, Len(a) - 1), cmp), a[Len(a)], cmp)

\* mutant of SortingToStream: toArray() on a bare fromArray handle hands out the
\* caller's array itself, so that sort() reorders the caller's array
SortingToStreamAliased(e, sn, cmp) ==
  LET Sorted(t) ==
        IF e.src.kind = "array" /\ e.stages = <<>>
        THEN [heap |-> [e.heap EXCEPT ![e.src.ref] = ArraySort(t.out, cmp)],
              ref |-> e.src.ref,
              seen |-> t.tr.seen,
              tr |-> t.tr]
        ELSE [heap |-> Append(e.heap, ArraySort(t.out, cmp)),
              ref |-> Len(e.heap) + 1,
              seen |-> t.tr.seen,
              tr |-> t.tr]
  IN Sorted(ToArray(e, sn))

\* Sorting.sorted and Sorting.toStream: items = this.stream.toArray() is a new
\* array (a new heap cell), items.sort(compareFn) sorts that cell in place, and
\* fromArray(sortedItems) refers to it
SortingToStream(e, sn, cmp) ==
  LET Sorted(t) ==
        [heap |-> Append(e.heap, ArraySort(t.out, cmp)),
         ref |-> Len(e.heap) + 1,
         seen |-> t.tr.seen,
         tr |-> t.tr]
  IN Sorted(ToArray(e, sn))

(* -------------------------------- group -------------------------------- *)
\* the equalFn callbacks used; "id" stands for the default (a, b) => a === b
EqIds == {"id", "le", "near"}

EqualFn(eq, a, b) ==
  CASE eq = "le"   -> a <= b
    [] eq = "near" -> a - b <= 1 /\ b - a <= 1
    [] OTHER -> a = b

\* the variables of one call of group's generate(), shared by the outer
\* generator and by every generateGroup closure: iterator, next, old, current
GroupState(tr, nxt, old, current) ==
  [tr |-> tr, nxt |-> nxt, old |-> old, current |-> current]

\* mutant of GenerateGroupLoop: equalFn is not consulted, every element joins
GenerateGroupLoopJoinAll(g, eq) ==
  IF g.nxt.done
  THEN [g |-> g, ipc |-> "done", r |-> Done]
  ELSE IF g.current = Undef /\ g.old = Undef
       THEN [g |-> [g EXCEPT !.current = g.nxt.value, !.old = g.nxt.value],
             ipc |-> "first", r |-> Yield(g.nxt.value)]
       ELSE [g |-> g, ipc |-> "more", r |-> Yield(g.current)]

\* the while loop of generateGroup from its test to the next yield or its end
GenerateGroupLoop(g, eq) ==
  IF g.nxt.done
  THEN [g |-> g, ipc |-> "done", r |-> Done]
  ELSE IF g.current = Undef /\ g.old = Undef
       THEN [g |-> [g EXCEPT !.current = g.nxt.value, !.old = g.nxt.value],
             ipc |-> "first", r |-> Yield(g.nxt.value)]
       ELSE IF EqualFn(eq, g.old, g.current)
            THEN [g |-> g, ipc |-> "more", r |-> Yield(g.current)]
            ELSE [g |-> [g EXCEPT !.current = Undef, !.old = Undef],
                  ipc |-> "done", r |-> Done]

\* one next() of a generateGroup generator whose position is ipc; after a
\* yield it does next = iterator.next(); current = next.value
GenerateGroup(e, g, eq, ipc) ==
  LET Fetched(p) == GenerateGroupLoop(GroupState(p.tr, p.r, g.old, p.r.value), eq)
  IN CASE ipc = "new" -> GenerateGroupLoop(g, eq)
       [] ipc \in {"first", "more"} -> Fetched(Pull(e, g.tr, Len(e.stages)))
       [] OTHER -> [g |-> g, ipc |-> "done", r |-> Done]

\* the while test of group's outer generator: it yields a new inner stream
\* while next is not done
GroupGenerateLoop(g) ==
  IF g.nxt.done
  THEN [g |-> g, opc |-> "done", r |-> Done]
  ELSE [g |-> g, opc |-> "yield", r |-> Yield(0)]

\* group whose outer loop fetches from the upstream before it yields again
GroupGenerateAdvancing(e, sn, g, opc) ==
  LET Fetched(p) == GroupGenerateLoop(GroupState(p.tr, p.r, Undef, Undef))
      Advanced(p) == GroupGenerateLoop(GroupState(p.tr, p.r, g.old, g.current))
  IN CASE opc = "new" -> Fetched(Pull(e, NewTraversal(e.stages, sn), Len(e.stages)))
       [] opc = "yield" -> Advanced(Pull(e, g.tr, Len(e.stages)))
       [] OTHER -> [g |-> g, opc |-> "done", r |-> Done]

\* one next() of group's outer generator; it pulls from the upstream only when
\* it is started: iterator = iteratorFn(); next = iterator.next()
GroupGenerate(e, sn, g, opc) ==
  LET Fetched(p) == GroupGenerateLoop(GroupState(p.tr, p.r, Undef, Undef))
  IN CASE opc = "new" -> Fetched(Pull(e, NewTraversal(e.stages, sn), Len(e.stages)))
       [] opc = "yield" -> GroupGenerateLoop(g)
       [] OTHER -> [g |-> g, opc |-> "done", r |-> Done]

RECURSIVE GroupToArray(_, _, _, _, _)
\* toArray() on one inner stream: a new generateGroup generator run to its end
GroupToArray(e, g, eq, ipc, items) ==
  LET Pulled(q) ==
        IF q.r.done THEN [g |-> q.g, out |-> items]
        ELSE GroupToArray(e, q.g, eq, q.ipc, Append(items, q.r.value))
  IN Pulled(GenerateGroup(e, g, eq, ipc))

RECURSIVE GroupMapLoop(_, _, _, _, _, _)
\* group(equalFn).map(g => g.toArray()).toArray(): every inner stream is
\* traversed to its end as soon as the outer generator has yielded it
GroupMapLoop(e, sn, g, eq, opc, arrays) ==
  LET Mapped(a, o) == GroupMapLoop(e, sn, a.g, eq, o.opc, Append(arrays, a.out))
      Pulled(o) ==
        IF o.r.done THEN [g |-> o.g, out |-> arrays]
        ELSE Mapped(GroupToArray(e, o.g, eq, "new", <<>>), o)
  IN Pulled(GroupGenerate(e, sn, g, opc))

GroupArrays(e, sn, eq) ==
  GroupMapLoop(e, sn, GroupState(NewTraversal(e.stages, sn), Done, Undef, Undef), eq, "new", <<>>)

(* ------------------------------ the program ---------------------------- *)
\* the handle whose top stage is the last stage built
TopEnv == Env(heap, src, stages)

\* the source handle S alone
SrcEnv == Env(heap, src, <<>>)

\* the first and the latest result of a repeated call
Record(log, out) == IF Len(log) < 2 THEN Append(log, out) ELSE <<log[1], out>>

\* the result of the first call, which is also the latest one
Both(out) == [first |-> out, latest |-> out]

\* what an operation did: op is "build" for a lazy combinator, "sorted" for
\* sorted(), "terminal" for a terminal operation on the top handle, "source" for
\* S.toArray(); the counts are those of the traversal the operation ran (of a
\* traversal never started, if it ran none)
Work(op, tr) == [op |-> op, pulls |-> tr.pulls, calls |-> tr.calls]

\* no partition is pulled step by step
NoPart == [pc |-> "none", fn |-> "", a |-> <<>>, d |-> <<>>]

\* no group() is pulled step by step
NoGroup == [opc |-> "none", g |-> GroupState(NewTraversal(<<>>, <<>>), Done, Undef, Undef),
            asked |-> 0, emitted |-> 0, byOuter |-> 0, runs |-> <<>>]

\* no take generator is run step by step
NoTake == [pc |-> "none", n |-> 0, nxt |-> Done, cnt |-> 0, out |-> <<>>,
           src |-> FromArray(1), tr |-> NewTraversal(<<>>, <<>>)]

\* the caller builds an array of at most len elements and S = fromArray(array),
\* or S = intRange(1, x => x <= hi), and calls S.toArray()
InitWith(len) ==
  /\ \/ /\ given \in SeqsUpTo(len)
        /\ heap = <<given>>
        /\ src = FromArray(1)
     \/ /\ given = <<>>
        /\ heap = <<given>>
        /\ \E hi \in 0..len : src = IntRange(1, "le", hi, "inc")
  /\ stages = <<>>
  /\ seen = <<>>
  /\ outs = <<>>
  /\ aux = <<>>
  /\ srcOut = Both(ToArray(Env(heap, src, <<>>), <<>>).out)
  /\ tk = NoTake
  /\ work = Work("source", ToArray(Env(heap, src, <<>>), <<>>).tr)
  /\ pt = NoPart
  /\ gr = NoGroup

\* mutant of Build: the combinator traverses the handle it is called on
BuildEager(s) ==
  /\ stages' = Append(stages, s)
  /\ seen' = Append(seen, {})
  /\ outs' = <<>>
  /\ aux' = <<>>
  /\ work' = Work("build", ToArray(TopEnv, seen).tr)
  /\ UNCHANGED <<given, heap, src, srcOut, tk, pt, gr>>

\* a lazy combinator called on the top handle: a new stage object, and for
\* distinct a new empty distinctItems set; nothing is pulled
Build(s) ==
  /\ stages' = Append(stages, s)
  /\ seen' = Append(seen, {})
  /\ outs' = <<>>
  /\ aux' = <<>>
  /\ work' = Work("build", NewTraversal(stages', seen'))
  /\ UNCHANGED <<given, heap, src, srcOut, tk, pt, gr>>

\* flatMap(mapperFn) called on the top handle: a Mapping stage and a Flattening
\* stage on top of it
BuildFlatMap(f) ==
  /\ stages' = stages \o <<Stage("map", 0, f, <<>>), Stage("flatten", 0, "", <<>>)>>
  /\ seen' = seen \o <<{}, {}>>
  /\ outs' = <<>>
  /\ aux' = <<>>
  /\ work' = Work("build", NewTraversal(stages', seen'))
  /\ UNCHANGED <<given, heap, src, srcOut, tk, pt, gr>>

\* sorted(compareFn) called on the top handle: the upstream is traversed now
BuildSorted(cmp) ==
  LET r == SortingToStream(TopEnv, seen, cmp)
  IN /\ heap' = r.heap
     /\ stages' = Append(stages, Stage("sorted", r.ref, cmp, <<>>))
     /\ seen' = Append(r.seen, {})
     /\ outs' = <<>>
     /\ aux' = <<>>
     /\ work' = Work("sorted", r.tr)
     /\ UNCHANGED <<given, src, srcOut, tk, pt, gr>>

\* toArray() on the top handle
DoToArray ==
  LET t == ToArray(TopEnv, seen)
  IN /\ outs' = Record(outs, t.out)
     /\ seen' = t.tr.seen
     /\ work' = Work("terminal", t.tr)
     /\ UNCHANGED <<given, heap, src, stages, aux, srcOut, tk, pt, gr>>

\* head() on the top handle: a traversal that is abandoned after one pull
DoHead ==
  LET t == StreamHead(TopEnv, seen)
  IN /\ aux' = <<[op |-> "head", eq |-> "", out |-> t.out]>>
     /\ seen' = t.tr.seen
     /\ work' = Work("terminal", t.tr)
     /\ UNCHANGED <<given, heap, src, stages, outs, srcOut, tk, pt, gr>>

\* group(equalFn).map(g => g.toArray()).toArray() on the top handle
DoGroup(eq) ==
  LET a == GroupArrays(TopEnv, seen, eq)
  IN /\ aux' = <<[op |-> "group", eq |-> eq, out |-> a.out]>>
     /\ seen' = a.g.tr.seen
     /\ work' = Work("terminal", a.g.tr)
     /\ UNCHANGED <<given, heap, src, stages, outs, srcOut, tk, pt, gr>>

\* const [accepted, declined] = S.partition(p), then accepted.toArray() and
\* declined.toArray()
DoPartition(p) ==
  LET a == ToArray(Env(heap, src, <<Partition(p)[1]>>), <<{}>>)
      d == ToArray(Env(heap, src, <<Partition(p)[2]>>), <<{}>>)
  IN /\ aux' = <<[op |-> "partition", eq |-> p, out |-> <<a.out, d.out>>]>>
     /\ work' = Work("terminal", d.tr)
     /\ UNCHANGED <<given, heap, src, stages, seen, outs, srcOut, tk, pt, gr>>

\* reduce(reducerfn) on the top handle, without an initial value
DoReduce(f) ==
  LET r == Reduce(TopEnv, seen, f, Undef)
  IN /\ aux' = <<[op |-> "reduce", eq |-> f, out |-> <<r.out, r.calls>>]>>
     /\ seen' = r.tr.seen
     /\ work' = Work("terminal", r.tr)
     /\ UNCHANGED <<given, heap, src, stages, outs, srcOut, tk, pt, gr>>

\* the initial values handed to reduce
Initials == {1, 2}

\* reduce(reducerfn, initialValue) on the top handle
DoReduceFrom(f, initialValue) ==
  LET r == Reduce(TopEnv, seen, f, initialValue)
  IN /\ aux' = <<[op |-> "reduceFrom", eq |-> f, out |-> <<r.out, r.calls, initialValue>>]>>
     /\ seen' = r.tr.seen
     /\ work' = Work("terminal", r.tr)
     /\ UNCHANGED <<given, heap, src, stages, outs, srcOut, tk, pt, gr>>

\* last(), size() or isEmpty() on the top handle
DoLast ==
  LET t == StreamLast(TopEnv, seen)
  IN /\ aux' = <<[op |-> "last", eq |-> "", out |-> t.out]>>
     /\ seen' = t.tr.seen
     /\ work' = Work("terminal", t.tr)
     /\ UNCHANGED <<given, heap, src, stages, outs, srcOut, tk, pt, gr>>

DoSize ==
  LET t == StreamSize(TopEnv, seen)
  IN /\ aux' = <<[op |-> "size", eq |-> "", out |-> t.out]>>
     /\ seen' = t.tr.seen
     /\ work' = Work("terminal", t.tr)
     /\ UNCHANGED <<given, heap, src, stages, outs, srcOut, tk, pt, gr>>

DoIsEmpty ==
  LET t == IsEmpty(TopEnv, seen)
  IN /\ aux' = <<[op |-> "isEmpty", eq |-> "", out |-> t.out]>>
     /\ seen' = t.tr.seen
     /\ work' = Work("terminal", t.tr)
     /\ UNCHANGED <<given, heap, src, stages, outs, srcOut, tk, pt, gr>>

\* S.init().append(S.last()): append called on the handle of S.init() with the
\* value that S.last() returns
BuildAppendLast == Build(Stage("append", StreamLast(SrcEnv, <<>>).out, "", <<>>))

\* the streams b of S.concat(b): S itself, S.filter(even), S.map(x => 2x), S.tail()
ConcatOthers ==
  {<<>>, <<Stage("filter", 0, "even", <<>>)>>, <<Stage("map", 0, "dbl", <<>>)>>,
   <<Stage("tail", 0, "", <<>>)>>}


\* a stream made inside inits() or tails(): stages chained on empty() (base
\* "empty") or on the stream the operation was called on (base "self")
Handle(base, st) == [base |-> base, stages |-> st]

\* toArray() on such a stream; empty() is fromArray([]), a new array
HandleToArray(e, h) ==
  IF h.base = "empty"
  THEN ToArray(Env(Append(e.heap, <<>>), FromArray(Len(e.heap) + 1), h.stages),
               NoSeen(h.stages)).out
  ELSE ToArray(Env(e.heap, e.src, e.stages \o h.stages),
               NoSeen(e.stages \o h.stages)).out

\* the generator of inits() or tails() before its first next()
NewOuter(e) ==
  [pc |-> "new", tr |-> NewTraversal(e.stages, NoSeen(e.stages)), nxt |-> Done,
   stream |-> Handle("empty", <<>>)]

\* what a next() of such a generator leaves behind
OuterRes(g, r) == [g |-> g, r |-> r]

\* inits without the yield that follows its loop: the whole of S is never emitted
InitsLoopNoFinalYield(g) ==
  IF g.nxt.done THEN OuterRes([g EXCEPT !.pc = "done"], Done)
  ELSE OuterRes([g EXCEPT !.pc = "yield"], Yield(g.stream))

\* inits() from the test of its while loop to its next yield: yield stream
\* inside the loop, and yield stream once more after it
InitsLoop(g) ==
  IF g.nxt.done THEN OuterRes([g EXCEPT !.pc = "last"], Yield(g.stream))
  ELSE OuterRes([g EXCEPT !.pc = "yield"], Yield(g.stream))

\* one next() of the generator of inits(): after a yield inside the loop,
\*   next = iterator.next(); stream = stream.append(value)
InitsPull(e, g) ==
  LET Started(p) == InitsLoop([g EXCEPT !.tr = p.tr, !.nxt = p.r])
      Resumed(p) ==
        InitsLoop([g EXCEPT !.tr = p.tr, !.nxt = p.r,
                            !.stream = Handle(g.stream.base,
                                Append(g.stream.stages, Stage("append", g.nxt.value, "", <<>>)))])
  IN CASE g.pc = "new" -> Started(Pull(e, g.tr, Len(e.stages)))
       [] g.pc = "yield" -> Resumed(Pull(e, g.tr, Len(e.stages)))
       [] OTHER -> OuterRes([g EXCEPT !.pc = "done"], Done)

\* tails without the yield that precedes its loop: S itself is never emitted
TailsPullNoFirstYield(e, g) ==
  LET Resumed(p) ==
        OuterRes([g EXCEPT !.pc = "yield", !.tr = p.tr, !.nxt = p.r,
                           !.stream = Handle("self",
                               Append(g.stream.stages, Stage("tail", 0, "", <<>>)))],
                 Yield(Handle("self", Append(g.stream.stages, Stage("tail", 0, "", <<>>)))))
      Started(p) ==
        IF p.r.done THEN OuterRes([g EXCEPT !.pc = "done", !.tr = p.tr, !.nxt = p.r], Done)
        ELSE TailsPull(e, [g EXCEPT !.pc = "yield", !.tr = p.tr, !.nxt = p.r,
                                    !.stream = Handle("self", <<>>)])
  IN CASE g.pc = "new" -> Started(Pull(e, g.tr, Len(e.stages)))
       [] g.pc = "yield" /\ ~g.nxt.done -> Resumed(Pull(e, g.tr, Len(e.stages)))
       [] OTHER -> OuterRes([g EXCEPT !.pc = "done"], Done)

\* one next() of the generator of tails(): the first does stream = self;
\* next = iterator.next(); yield stream, a later one the turn of the loop
\*   next = iterator.next(); stream = stream.tail(); yield stream
TailsPull(e, g) ==
  LET Resumed(p) ==
        OuterRes([g EXCEPT !.pc = "yield", !.tr = p.tr, !.nxt = p.r,
                           !.stream = Handle("self",
                               Append(g.stream.stages, Stage("tail", 0, "", <<>>)))],
                 Yield(Handle("self", Append(g.stream.stages, Stage("tail", 0, "", <<>>)))))
      Started(p) ==
        OuterRes([g EXCEPT !.pc = "yield", !.tr = p.tr, !.nxt = p.r,
                           !.stream = Handle("self", <<>>)],
                 Yield(Handle("self", <<>>)))
  IN CASE g.pc = "new" -> Started(Pull(e, g.tr, Len(e.stages)))
       [] g.pc = "yield" /\ ~g.nxt.done -> Resumed(Pull(e, g.tr, Len(e.stages)))
       [] OTHER -> OuterRes([g EXCEPT !.pc = "done"], Done)

\* one next() on the iterator of e.inits() or e.tails()
OuterPull(e, g, which) == IF which = "inits" THEN InitsPull(e, g) ELSE TailsPull(e, g)

\* inits() / tails() followed by toArray(): the streams in emission order
RECURSIVE OuterToArray(_, _, _, _)
OuterToArray(e, g, which, acc) ==
  LET Fetched(p) ==
        IF p.r.done THEN acc ELSE OuterToArray(e, p.g, which, Append(acc, p.r.value))
  IN Fetched(OuterPull(e, g, which))

\* tails().head() and inits().last(): <<the stream>>, or <<>> for undefined
OuterHead(e, which) ==
  LET Fetched(p) == IF p.r.done THEN <<>> ELSE <<p.r.value>>
  IN Fetched(OuterPull(e, NewOuter(e), which))

OuterLast(e, which) ==
  LET hs == OuterToArray(e, NewOuter(e), which, <<>>)
  IN IF hs = <<>> THEN <<>> ELSE <<hs[Len(hs)]>>

\* x.toArray() for the x that head() or last() returned: a TypeError is raised
\* when x is undefined
EdgeToArray(e, x) ==
  IF x = <<>> THEN [raised |-> TRUE, out |-> <<>>]
  ELSE [raised |-> FALSE, out |-> HandleToArray(e, x[1])]

\* for which = "inits": S.inits().map(s => s.toArray()).toArray(), then every
\* emitted stream traversed once more, latest first, and S.inits().last().toArray();
\* for which = "tails" the same with S.tails() and S.tails().head().toArray()
DoInitsTails(which) ==
  LET e == TopEnv
      hs == OuterToArray(e, NewOuter(e), which, <<>>)
      edge == IF which = "inits" THEN OuterLast(e, which) ELSE OuterHead(e, which)
      first == [k \in DOMAIN hs |-> HandleToArray(e, hs[k])]
      back == [k \in DOMAIN hs |-> HandleToArray(e, hs[Len(hs) + 1 - k])]
      again == [k \in DOMAIN hs |-> back[Len(hs) + 1 - k]]
  IN /\ aux' = <<[op |-> which, eq |-> "",
                  out |-> <<first, again, EdgeToArray(e, edge)>>]>>
     /\ work' = Work("terminal", NewTraversal(stages, seen))
     /\ UNCHANGED <<given, heap, src, stages, seen, outs, srcOut, tk, pt, gr>>


\* S.toArray() on the source handle
SourceToArray ==
  LET t == ToArray(SrcEnv, <<>>)
  IN /\ srcOut' = [srcOut EXCEPT !.latest = t.out]
     /\ aux' = <<[op |-> "source", eq |-> "", out |-> t.out]>>
     /\ work' = Work("source", t.tr)
     /\ UNCHANGED <<given, heap, src, stages, seen, outs, tk, pt, gr>>

(* ----------------------- the session specification --------------------- *)
\* the lazy stages a session chains
SessionStages ==
  {Stage("filter", 0, "even", <<>>),
   Stage("distinct", 0, "id", <<>>)}

Init == InitWith(SrcLen)

Next ==
  \/ \E s \in SessionStages : Len(stages) < MaxStages /\ Build(s)
  \/ Len(stages) < MaxStages /\ BuildSorted("desc")
  \/ DoToArray
  \/ DoHead
  \/ DoGroup("id")
  \/ SourceToArray

Spec == Init /\ [][Next]_vars

(* ------------------ the single-operation specification ----------------- *)
\* the numeric arguments tried for take(n) and drop(n): below, at and above
\* the length of the longest source
Counts == (0 - 1)..(MaxLen + 1)

\* the lazy stages applied to a source handle
OpStages ==
  {Stage("filter", 0, p, <<>>) : p \in PredIds \cup IndexPredIds}
  \cup {Stage("map", 0, f, <<>>) : f \in MapIds}
  \cup {Stage("take", n, "", <<>>) : n \in Counts}
  \cup {Stage("takeWhile", 0, p, <<>>) : p \in PredIds}
  \cup {Stage("takeUntil", 0, p, <<>>) : p \in PredIds}
  \cup {Stage("drop", n, "", <<>>) : n \in Counts}
  \cup {Stage("distinct", 0, f, <<>>) : f \in KeyIds}

\* S.take(n).concat(S.drop(n)): the second stage of the chain
ConcatDrop(n) == Stage("concat", 0, "", <<Stage("drop", n, "", <<>>)>>)

InitOps == InitWith(MaxLen)

NextOps ==
  \/ \E s \in OpStages : stages = <<>> /\ Build(s)
  \/ \E c \in CmpIds : stages = <<>> /\ BuildSorted(c)
  \/ /\ Len(stages) = 1
     /\ stages[1].op = "take"
     /\ Build(ConcatDrop(stages[1].n))
  \/ /\ Len(stages) = 1
     /\ stages[1].op = "filter"
     /\ stages[1].fn \in PredIds
     /\ \E q \in PredIds : Build(Stage("filter", 0, q, <<>>))
  \/ \E f \in ArrIds : stages = <<>> /\ BuildFlatMap(f)
  \/ DoToArray
  \/ \E eq \in EqIds : stages = <<>> /\ DoGroup(eq)
  \/ \E p \in PredIds : stages = <<>> /\ DoPartition(p)
  \/ \E f \in ReduceIds : stages = <<>> /\ DoReduce(f)

SpecOps == InitOps /\ [][NextOps]_vars

(* ------------- further combinators on a source, one at a time ---------- *)
\* the further lazy stages applied to a source handle
MoreStages ==
  {Stage("dropWhile", 0, p, <<>>) : p \in PredIds}
  \cup {Stage("dropUntil", 0, p, <<>>) : p \in PredIds}
  \cup {Stage("replicate", n, "", <<>>) : n \in Counts}
  \cup {Stage("init", 0, "", <<>>), Stage("tail", 0, "", <<>>)}

NextMore ==
  \/ \E s \in MoreStages : stages = <<>> /\ Build(s)
  \/ /\ Len(stages) = 1 /\ stages[1].op = "init" /\ BuildAppendLast
  \/ \E o \in ConcatOthers : stages = <<>> /\ Build(Stage("concat", 0, "", o))
  \/ DoToArray
  \/ /\ Len(stages) = 1 /\ stages[1].op = "replicate" /\ DoHead

SpecMore == InitOps /\ [][NextMore]_vars

(* ------------------ terminal operations on a source -------------------- *)
NextTerm ==
  \/ stages = <<>> /\ DoHead
  \/ stages = <<>> /\ DoLast
  \/ stages = <<>> /\ DoSize
  \/ stages = <<>> /\ DoIsEmpty
  \/ stages = <<>> /\ DoInitsTails("inits")
  \/ stages = <<>> /\ DoInitsTails("tails")
  \/ \E f \in ReduceIds, v \in Initials : stages = <<>> /\ DoReduceFrom(f, v)

SpecTerm == InitOps /\ [][NextTerm]_vars

(* --------------------- every operation on empty() ---------------------- *)
\* S is empty(), which is fromArray([])
InitEmpty == InitWith(0) /\ src = FromArray(1)

NextEmpty ==
  \/ NextOps
  \/ NextMore
  \/ NextTerm
  \/ stages = <<>> /\ BuildSorted("default")

SpecEmpty == InitEmpty /\ [][NextEmpty]_vars

(* --------------------- intRange with varied callbacks ------------------ *)
\* intRange(start, hasNext, next) for start in 1..MaxVal, hasNext one of
\* x => x <= hi and x => x !== hi && x <= RangeCap, next the default or x => x + 2
RangeSources ==
  {IntRange(start, has, hi, nx) :
     start \in 1..MaxVal, has \in {"le", "except"}, hi \in 0..MaxVal, nx \in {"inc", "step2"}}

InitRange ==
  /\ given = <<>>
  /\ heap = <<given>>
  /\ src \in RangeSources
  /\ stages = <<>>
  /\ seen = <<>>
  /\ outs = <<>>
  /\ aux = <<>>
  /\ srcOut = Both(<<>>)
  /\ tk = NoTake
  /\ work = Work("build", NewTraversal(<<>>, <<>>))
  /\ pt = NoPart
  /\ gr = NoGroup

\* the first S.toArray()
FirstToArray ==
  LET t == ToArray(SrcEnv, <<>>)
  IN /\ aux = <<>>
     /\ srcOut' = Both(t.out)
     /\ aux' = <<[op |-> "first", eq |-> "", out |-> t.out]>>
     /\ work' = Work("source", t.tr)
     /\ UNCHANGED <<given, heap, src, stages, seen, outs, tk, pt, gr>>

NextRange ==
  \/ FirstToArray
  \/ aux # <<>> /\ SourceToArray
  \/ aux # <<>> /\ DoHead
  \/ aux # <<>> /\ DoSize

SpecRange == InitRange /\ [][NextRange]_vars


(* ------------- S.group(), outer and inner streams pulled apart --------- *)
\* the most next() calls made on the outer iterator, and the most toArray()
\* calls made on inner streams
MaxEmit == 4
MaxRuns == 3

InitGroup ==
  /\ given \in SeqsUpTo(MaxLen)
  /\ heap = <<given>>
  /\ src = FromArray(1)
  /\ stages = <<>>
  /\ seen = <<>>
  /\ outs = <<>>
  /\ aux = <<>>
  /\ srcOut = Both(ToArray(Env(heap, src, <<>>), <<>>).out)
  /\ tk = NoTake
  /\ work = Work("source", ToArray(Env(heap, src, <<>>), <<>>).tr)
  /\ pt = NoPart
  /\ gr = [NoGroup EXCEPT !.opc = "new"]

\* one next() on the iterator of S.group(): when it is not done the outer
\* generator has emitted one more inner stream; byOuter counts the upstream
\* next() calls made inside these outer next() calls
GroupOuterNext ==
  LET o == GroupGenerate(SrcEnv, <<>>, gr.g, gr.opc)
      before == IF gr.opc = "new" THEN 0 ELSE gr.g.tr.pulls[0]
  IN /\ gr.opc # "none" /\ gr.asked < MaxEmit
     /\ gr' = [gr EXCEPT !.opc = o.opc, !.g = o.g, !.asked = @ + 1,
                         !.emitted = IF o.r.done THEN @ ELSE @ + 1,
                         !.byOuter = @ + o.g.tr.pulls[0] - before]
     /\ UNCHANGED <<given, heap, src, stages, seen, outs, aux, srcOut, tk, work, pt>>

\* inner streams that read the shared variables but do not write them back
GroupInnerToArrayPrivate(j) ==
  LET a == GroupToArray(SrcEnv, gr.g, "id", "new", <<>>)
  IN /\ j \in 1..gr.emitted /\ Len(gr.runs) < MaxRuns
     /\ gr' = [gr EXCEPT !.runs = Append(@, [stream |-> j, out |-> a.out])]
     /\ UNCHANGED <<given, heap, src, stages, seen, outs, aux, srcOut, tk, work, pt>>

\* toArray() on the j-th emitted inner stream: a new generateGroup generator
\* over the variables all inner streams share, run to its end
GroupInnerToArray(j) ==
  LET a == GroupToArray(SrcEnv, gr.g, "id", "new", <<>>)
  IN /\ j \in 1..gr.emitted /\ Len(gr.runs) < MaxRuns
     /\ gr' = [gr EXCEPT !.g = a.g, !.runs = Append(@, [stream |-> j, out |-> a.out])]
     /\ UNCHANGED <<given, heap, src, stages, seen, outs, aux, srcOut, tk, work, pt>>

NextGroup ==
  \/ GroupOuterNext
  \/ \E j \in 1..MaxEmit : GroupInnerToArray(j)

SpecGroup == InitGroup /\ [][NextGroup]_vars


(* ------------- toArray() on S.take(n), one loop turn at a time --------- *)
\* the sources of the step-by-step run: the unbounded intRange(0, x => true,
\* x => (x + 1) % MaxVal), and the finite intRange(1, x => x <= hi)
TakeSources ==
  {IntRange(0, "true", MaxVal, "wrap")}
  \cup {IntRange(1, "le", hi, "inc") : hi \in 0..MaxLen}

InitTake ==
  /\ given = <<>>
  /\ heap = <<given>>
  /\ src \in TakeSources
  /\ stages = <<>>
  /\ seen = <<>>
  /\ outs = <<>>
  /\ aux = <<>>
  /\ srcOut = Both(<<>>)
  /\ work = Work("build", NewTraversal(<<>>, <<>>))
  /\ pt = NoPart
  /\ gr = NoGroup
  /\ \E n \in Counts :
       tk = [pc |-> "new", n |-> n, nxt |-> Done, cnt |-> 0, out |-> <<>>,
             src |-> src, tr |-> NewTraversal(<<>>, <<>>)]

\* toArray() creates the iterator and calls next(): the generator of take starts
\* with iterator = iteratorFn(); next = iterator.next(); count = 0
TakeBegin ==
  LET Fetched(p) == [tk EXCEPT !.pc = "loop", !.nxt = p.r, !.tr = Uncounted(p.tr), !.cnt = 0]
  IN /\ tk.pc = "new"
     /\ tk' = Fetched(Pull(SrcEnv, tk.tr, 0))
     /\ UNCHANGED <<given, heap, src, stages, seen, outs, aux, srcOut, work, pt, gr>>

\* one turn of the while loop of take's generator.  When next is done the
\* generator returns and toArray() returns.  Otherwise the generator fetches the
\* next element; when it yields, toArray() stores the value and calls next()
\* again, and the generator goes on with count += 1.  The step-by-step run keeps
\* no count of its next() calls
TakeStep ==
  LET Fetched(p) ==
        IF TakeGuard(Stage("take", tk.n, "", <<>>), tk, tk.nxt.value, p.r.done)
        THEN [tk EXCEPT !.nxt = p.r, !.tr = Uncounted(p.tr), !.cnt = @ + 1,
                        !.out = Append(@, tk.nxt.value)]
        ELSE [tk EXCEPT !.nxt = p.r, !.tr = Uncounted(p.tr)]
  IN /\ tk.pc = "loop"
     /\ tk' = IF tk.nxt.done THEN [tk EXCEPT !.pc = "done"]
              ELSE Fetched(Pull(SrcEnv, tk.tr, 0))
     /\ UNCHANGED <<given, heap, src, stages, seen, outs, aux, srcOut, work, pt, gr>>

NextTake == TakeBegin \/ TakeStep

\* toArray() is synchronous code: its loop keeps running until it returns
SpecTake == InitTake /\ [][NextTake]_vars /\ WF_vars(NextTake)

(* ---------------- sorted() without a comparator, on numbers ------------ *)
NumVals == 1..MaxNum

\* the caller builds an array of numbers of one and two digits
InitSort ==
  /\ given \in SeqsOver(NumVals, SrcLen)
  /\ heap = <<given>>
  /\ src = FromArray(1)
  /\ stages = <<>>
  /\ seen = <<>>
  /\ outs = <<>>
  /\ aux = <<>>
  /\ srcOut = Both(ToArray(Env(heap, src, <<>>), <<>>).out)
  /\ tk = NoTake
  /\ work = Work("source", ToArray(Env(heap, src, <<>>), <<>>).tr)
  /\ pt = NoPart
  /\ gr = NoGroup

\* S.sorted() and toArray() on it
NextSort ==
  \/ stages = <<>> /\ BuildSorted("default")
  \/ DoToArray

SpecSort == InitSort /\ [][NextSort]_vars


(* --------- the halves of S.partition(p), one next() at a time ---------- *)
\* a cursor over a handle with the chain st: its traversal, the values it has
\* yielded, and whether it has reported the end
NewCursorOver(st) ==
  [tr |-> NewTraversal(st, NoSeen(st)), out |-> <<>>, done |-> FALSE]

\* one next() on a cursor c over the handle S followed by the chain st
CursorNext(c, st) ==
  LET Fetched(p) ==
        [tr |-> p.tr,
         out |-> IF p.r.done THEN c.out ELSE Append(c.out, p.r.value),
         done |-> p.r.done]
  IN Fetched(Pull(Env(heap, src, st), c.tr, Len(st)))

InitPart == InitWith(MaxLen)

\* const [accepted, declined] = S.partition(p), and an iterator over each half
PartitionBegin(p) ==
  /\ pt.pc = "none"
  /\ pt' = [pc |-> "open", fn |-> p,
            a |-> NewCursorOver(<<Partition(p)[1]>>),
            d |-> NewCursorOver(<<Partition(p)[2]>>)]
  /\ UNCHANGED <<given, heap, src, stages, seen, outs, aux, srcOut, tk, work, gr>>

\* next() on the iterator over accepted
PullAccepted ==
  /\ pt.pc = "open"
  /\ ~pt.a.done
  /\ pt' = [pt EXCEPT !.a = CursorNext(pt.a, <<Partition(pt.fn)[1]>>)]
  /\ UNCHANGED <<given, heap, src, stages, seen, outs, aux, srcOut, tk, work, gr>>

\* mutant of PullDeclined: the generator of declined reads the upstream through
\* the source iterator of accepted
PullDeclinedSharedUpstream ==
  /\ pt.pc = "open"
  /\ ~pt.d.done
  /\ pt' = [pt EXCEPT !.d = CursorNext([pt.d EXCEPT !.tr.src = pt.a.tr.src],
                                       <<Partition(pt.fn)[2]>>)]
  /\ UNCHANGED <<given, heap, src, stages, seen, outs, aux, srcOut, tk, work, gr>>

\* next() on the iterator over declined
PullDeclined ==
  /\ pt.pc = "open"
  /\ ~pt.d.done
  /\ pt' = [pt EXCEPT !.d = CursorNext(pt.d, <<Partition(pt.fn)[2]>>)]
  /\ UNCHANGED <<given, heap, src, stages, seen, outs, aux, srcOut, tk, work, gr>>

NextPart ==
  \/ \E p \in PredIds : PartitionBegin(p)
  \/ PullAccepted
  \/ PullDeclined

SpecPart == InitPart /\ [][NextPart]_vars


(* ------------------------------ properties ----------------------------- *)
\* the elements of s at the positions in I, in order
RECURSIVE PickFrom(_, _, _)
PickFrom(s, I, i) ==
  IF i > Len(s) THEN <<>>
  ELSE (IF i \in I THEN <<s[i]>> ELSE <<>>) \o PickFrom(s, I, i + 1)

Pick(s, I) == PickFrom(s, I, 1)

\* the first occurrence of every key of s, in the order of s
FirstOccurrences(s, key) ==
  Pick(s, {i \in DOMAIN s : \A j \in 1..(i - 1) : KeyFn(key, s[j]) # KeyFn(key, s[i])})

\* the longest prefix of s whose elements all satisfy p (want = TRUE) or all
\* fail p (want = FALSE)
LongestPrefix(s, p, want) ==
  Pick(s, {i \in DOMAIN s : \A j \in 1..i : Pred(p, s[j], 0) = want})

RECURSIVE Flatten(_)
Flatten(G) == IF G = <<>> THEN <<>> ELSE G[1] \o Flatten(Tail(G))

Count(s, v) == Cardinality({i \in DOMAIN s : s[i] = v})

Elems(s) == {s[i] : i \in DOMAIN s}

\* the top handle is S with exactly one stage, whose op is op
OneStage(op) == Len(stages) = 1 /\ stages[1].op = op

\* the latest call other than toArray() was op
Latest(op) == aux # <<>> /\ aux[1].op = op

\* C1: toArray() called twice on the same handle returns two equal arrays
C1_Restartable == Len(outs) = 2 => outs[1] = outs[2]

\* C2: whatever pipelines were derived from S and traversed, S.toArray() returns
\* what it returned at first and the array given to fromArray is as it was given
C2_SourceUnchanged ==
  /\ srcOut.latest = srcOut.first
  /\ src.kind = "array" => heap[src.ref] = given /\ srcOut.latest = given

\* C2 witness: a sorted pipeline whose array is ordered differently from the
\* source array was built and traversed, and then S.toArray() was called
C2_Witness ==
  /\ src.kind = "array"
  /\ Latest("source")
  /\ outs # <<>>
  /\ \E k \in DOMAIN stages : stages[k].op = "sorted" /\ heap[stages[k].n] # given

\* C3: every traversal of S.distinct(key) yields the first occurrence of each key
\* of S, in the order of S
C3_DistinctEveryTraversal ==
  OneStage("distinct") =>
    \A i \in DOMAIN outs : outs[i] = FirstOccurrences(srcOut.first, stages[1].fn)

\* C4: S.take(n).toArray() is the first min(n, m) elements of S, m the length of S
C4_TakeFirstN ==
  OneStage("take") =>
    \A i \in DOMAIN outs : outs[i] = Prefix(srcOut.first, stages[1].n)

\* C5: S.take(n).concat(S.drop(n)).toArray() equals S.toArray()
C5_TakeConcatDrop ==
  (Len(stages) = 2 /\ stages[1].op = "take" /\ stages[2] = ConcatDrop(stages[1].n)) =>
    \A i \in DOMAIN outs : outs[i] = srcOut.first

\* C6: toArray() on take(n) returns, whether the upstream is finite or unbounded
C6_TakeTerminates == <>(tk.pc = "done")

\* C7: takeWhile(p) yields the longest prefix whose elements all satisfy p, and
\* takeUntil(p) the longest prefix whose elements all fail p
C7_TakeWhilePrefix ==
  /\ OneStage("takeWhile") =>
       \A i \in DOMAIN outs : outs[i] = LongestPrefix(srcOut.first, stages[1].fn, TRUE)
  /\ OneStage("takeUntil") =>
       \A i \in DOMAIN outs : outs[i] = LongestPrefix(srcOut.first, stages[1].fn, FALSE)

\* C8: S.group().map(g => g.toArray()).toArray() is the sequence of the maximal
\* runs of adjacent equal elements of S: no group is empty, a group holds one
\* value, the groups concatenated are S, adjacent groups differ in value, and an
\* empty S has no groups
C8_GroupRuns ==
  (stages = <<>> /\ Latest("group") /\ aux[1].eq = "id") =>
    LET G == aux[1].out
    IN /\ \A i \in DOMAIN G : Len(G[i]) > 0 /\ \A j \in DOMAIN G[i] : G[i][j] = G[i][1]
       /\ Flatten(G) = srcOut.first
       /\ \A i \in 1..(Len(G) - 1) : G[i][Len(G[i])] # G[i + 1][1]
       /\ srcOut.first = <<>> => G = <<>>

\* C8 witness: the groups of a source with a run of two equal elements next to a
\* different element
C8_Witness ==
  /\ stages = <<>>
  /\ Latest("group")
  /\ aux[1].eq = "id"
  /\ Len(aux[1].out) >= 2
  /\ \E i \in DOMAIN aux[1].out : Len(aux[1].out[i]) >= 2

\* C9: in S.group(equalFn) an element joins the current group exactly when
\* equalFn(the element before it, the element) holds, for every equalFn
C9_GroupByPrevious ==
  (stages = <<>> /\ Latest("group")) =>
    LET G == aux[1].out
        eq == aux[1].eq
    IN /\ \A i \in DOMAIN G : Len(G[i]) > 0
       /\ Flatten(G) = srcOut.first
       /\ \A i \in DOMAIN G : \A j \in 1..(Len(G[i]) - 1) : EqualFn(eq, G[i][j], G[i][j + 1])
       /\ \A i \in 1..(Len(G) - 1) : ~EqualFn(eq, G[i][Len(G[i])], G[i + 1][1])

\* the elements of s that compare equal to v, in the order of s
Ties(s, cmp, v) == Pick(s, {i \in DOMAIN s : CompareFn(cmp, s[i], v) = 0})

\* C10: S.sorted(compareFn).toArray() is a permutation of S.toArray(), every
\* adjacent pair (a, b) of it has compareFn(a, b) <= 0, and the elements that
\* compare equal are in the order they have in S
C10_SortedStable ==
  OneStage("sorted") =>
    \A i \in DOMAIN outs :
      LET out == outs[i]
          cmp == stages[1].fn
      IN /\ \A v \in Elems(out) \cup Elems(srcOut.first) : Count(out, v) = Count(srcOut.first, v)
         /\ \A j \in 1..(Len(out) - 1) : CompareFn(cmp, out[j], out[j + 1]) <= 0
         /\ \A v \in Elems(out) : Ties(out, cmp, v) = Ties(srcOut.first, cmp, v)

\* C10 witness: a sorted array that is ordered differently from S and holds two
\* different elements that compare equal
C10_Witness ==
  /\ OneStage("sorted")
  /\ outs # <<>>
  /\ outs[1] # srcOut.first
  /\ \E i, j \in DOMAIN outs[1] :
       outs[1][i] # outs[1][j] /\ CompareFn(stages[1].fn, outs[1][i], outs[1][j]) = 0

\* C11: S.sorted() without a comparator holds the numbers of S in ascending
\* numeric order
C11_SortedNatural ==
  (OneStage("sorted") /\ stages[1].fn = "default") =>
    \A i \in DOMAIN outs :
      /\ \A v \in Elems(outs[i]) \cup Elems(srcOut.first) :
           Count(outs[i], v) = Count(srcOut.first, v)
      /\ \A j \in 1..(Len(outs[i]) - 1) : outs[i][j] <= outs[i][j + 1]


\* the chain holds a sorted stage, and k is the topmost one
TopSorted(k) ==
  /\ k \in DOMAIN stages
  /\ stages[k].op = "sorted"
  /\ \A j \in DOMAIN stages : stages[j].op = "sorted" => j <= k

\* C12: sorted() traverses its upstream once, while it is called: one next() per
\* upstream element and the one that reports the end; every later traversal of
\* the returned stream, or of a stream derived from it, calls next() on no
\* handle below the sorted stage and invokes no callback of a stage below it
C12_SortedSnapshot ==
  /\ work.op = "sorted" =>
       work.pulls[Len(stages) - 1] = Len(heap[stages[Len(stages)].n]) + 1
  /\ work.op = "terminal" =>
       \A k \in DOMAIN stages : TopSorted(k) =>
         /\ \A j \in 0..(k - 1) : work.pulls[j] = 0
         /\ \A j \in 1..(k - 1) : work.calls[j] = 0

\* C12 witness: the stream S.filter(p).sorted(c), sorted from a non-empty filtered
\* upstream, has been traversed twice by toArray()
C12_Witness ==
  /\ work.op = "terminal"
  /\ Len(stages) = 2
  /\ stages[1].op = "filter"
  /\ stages[2].op = "sorted"
  /\ Len(outs) = 2
  /\ outs[2] # <<>>
  /\ work.pulls[2] = Len(outs[2]) + 1

\* the counts of an operation are all zero
NothingDone(w) ==
  /\ \A k \in DOMAIN w.pulls : w.pulls[k] = 0
  /\ \A k \in DOMAIN w.calls : w.calls[k] = 0

MapSeq(s, f) == [j \in 1..Len(s) |-> MapFn(f, s[j], j - 1)]

\* C14: S.filter(p).toArray() holds, in the order of S, the elements x_i of S with
\* p(x_i, i), i the 0-based position in S, and the traversal calls p once for
\* each element of S
C14_FilterByUpstreamIndex ==
  OneStage("filter") =>
    /\ \A i \in DOMAIN outs :
         outs[i] = Pick(srcOut.first,
                        {j \in DOMAIN srcOut.first : Pred(stages[1].fn, srcOut.first[j], j - 1)})
    /\ work.op = "terminal" => work.calls[1] = Len(srcOut.first)

\* C14 witness: a predicate that reads the index has kept two elements and
\* rejected one in between
C14_Witness ==
  /\ OneStage("filter")
  /\ stages[1].fn \in IndexPredIds
  /\ work.op = "terminal"
  /\ outs # <<>>
  /\ Len(outs[1]) >= 2
  /\ Len(outs[1]) < Len(srcOut.first)

\* C15: S.filter(p).filter(q).toArray() equals S.filter(x => p(x) && q(x)).toArray()
C15_FilterFusion ==
  (Len(stages) = 2 /\ stages[1].op = "filter" /\ stages[2].op = "filter") =>
    \A i \in DOMAIN outs :
      outs[i] = ToArray(Env(heap, src,
                            <<Stage("filter", 0, AndPred(stages[1].fn, stages[2].fn), <<>>)>>),
                        <<{}>>).out

\* C15 witness: two different predicates, the second of which rejects an
\* element the first one let through
C15_Witness ==
  /\ Len(stages) = 2
  /\ stages[1].op = "filter"
  /\ stages[2].op = "filter"
  /\ stages[1].fn # stages[2].fn
  /\ outs # <<>>
  /\ outs[1] # <<>>
  /\ Len(outs[1]) < Len(ToArray(Env(heap, src, <<stages[1]>>), <<{}>>).out)

\* C16: S.map(f).toArray() is [f(x_0, 0), f(x_1, 1), ...]: as long as S, in the
\* order of S, f called once per element, and equal to S when f is the identity
C16_MapEachWithIndex ==
  OneStage("map") =>
    /\ \A i \in DOMAIN outs :
         /\ Len(outs[i]) = Len(srcOut.first)
         /\ outs[i] = MapSeq(srcOut.first, stages[1].fn)
         /\ stages[1].fn = "id" => outs[i] = srcOut.first
    /\ work.op = "terminal" => work.calls[1] = Len(srcOut.first)

\* C16 witness: a mapper that reads the index has mapped at least two elements
C16_Witness ==
  /\ OneStage("map")
  /\ stages[1].fn = "plusIdx"
  /\ work.op = "terminal"
  /\ outs # <<>>
  /\ Len(outs[1]) >= 2


\* the top handle is S.flatMap(f)
IsFlatMap ==
  /\ Len(stages) = 2
  /\ stages[1].op = "map"
  /\ stages[1].fn \in ArrIds
  /\ stages[2].op = "flatten"

\* C17: S.flatMap(f).toArray() is the arrays f(x_0, 0), f(x_1, 1), ... joined in
\* this order, each with its items in array order; an empty array adds nothing
C17_FlatMapConcatenates ==
  IsFlatMap =>
    \A i \in DOMAIN outs : outs[i] = Flatten(MapSeq(srcOut.first, stages[1].fn))

\* C17 witness: a flatMap whose first array is empty and whose later arrays
\* hold one item and two items
C17_Witness ==
  /\ IsFlatMap
  /\ stages[1].fn = "idxCopies"
  /\ Len(srcOut.first) >= 3
  /\ outs # <<>>
  /\ Len(outs[1]) >= 3

\* C18: S.partition(p) is [accepted, declined] with accepted = S.filter(p) and
\* declined = S.filter(not p), each in the order of S; every occurrence of an
\* element of S is in exactly one half, the halves share no value and together
\* hold the values of S
C18_PartitionSplits ==
  (stages = <<>> /\ Latest("partition")) =>
    LET S == srcOut.first
        p == aux[1].eq
        accepted == aux[1].out[1]
        declined == aux[1].out[2]
    IN /\ accepted = Pick(S, {j \in DOMAIN S : Pred(p, S[j], j - 1)})
       /\ declined = Pick(S, {j \in DOMAIN S : ~Pred(p, S[j], j - 1)})
       /\ accepted = ToArray(Env(heap, src, <<Stage("filter", 0, p, <<>>)>>), <<{}>>).out
       /\ \A v \in Elems(S) : Count(accepted, v) + Count(declined, v) = Count(S, v)
       /\ Elems(accepted) \cap Elems(declined) = {}
       /\ Elems(accepted) \cup Elems(declined) = Elems(S)

\* C18 witness: a partition with two non-empty halves
C18_Witness ==
  /\ stages = <<>>
  /\ Latest("partition")
  /\ aux[1].out[1] # <<>>
  /\ aux[1].out[2] # <<>>

\* what a cursor has yielded is what a traversal of its handle alone yields, up
\* to where the cursor is
YieldsAsAlone(c, st) ==
  LET alone == ToArray(Env(heap, src, st), NoSeen(st)).out
  IN /\ Len(c.out) <= Len(alone)
     /\ c.out = SubSeq(alone, 1, Len(c.out))
     /\ c.done => c.out = alone

\* C19: however the next() calls on a cursor over accepted and a cursor over
\* declined are interleaved, and wherever either of them stops, each cursor
\* yields the sequence its half yields when it is traversed alone
C19_PartitionCursorsIndependent ==
  pt.pc = "open" =>
    /\ YieldsAsAlone(pt.a, <<Partition(pt.fn)[1]>>)
    /\ YieldsAsAlone(pt.d, <<Partition(pt.fn)[2]>>)

\* C19 witness: both cursors have yielded a value, accepted has reported the end
\* and declined has not
C19_Witness ==
  /\ pt.pc = "open"
  /\ pt.a.done
  /\ pt.a.out # <<>>
  /\ pt.d.out # <<>>
  /\ ~pt.d.done


\* the accumulator of reduce(f) without an initial value after the first i
\* elements of s: the first element, then f(acc, x, index) for each further one
RECURSIVE FoldFirst(_, _, _)
FoldFirst(s, f, i) ==
  IF i = 1 THEN s[1] ELSE ReducerFn(f, FoldFirst(s, f, i - 1), s[i], i - 1)

\* C20: S.reduce(fn) without an initial value returns undefined for an empty S
\* and the element of a one-element S, in both cases without invoking fn; for n
\* >= 2 elements fn is invoked n - 1 times, as fn(acc, x_i, i) for i = 1..n-1 with
\* acc starting as x_0, and the last result is returned
C20_ReduceWithoutInitial ==
  (stages = <<>> /\ Latest("reduce")) =>
    LET S == srcOut.first
        n == Len(srcOut.first)
        f == aux[1].eq
        result == aux[1].out[1]
        calls == aux[1].out[2]
    IN /\ n = 0 => result = Undef /\ calls = <<>>
       /\ n = 1 => result = S[1] /\ calls = <<>>
       /\ n >= 2 =>
            /\ Len(calls) = n - 1
            /\ \A i \in 1..(n - 1) : calls[i] = <<FoldFirst(S, f, i), S[i + 1], i>>
            /\ result = FoldFirst(S, f, n)


\* the accumulator of a left fold of f from init over the first i elements of s
RECURSIVE FoldFrom(_, _, _, _)
FoldFrom(s, f, init, i) ==
  IF i = 0 THEN init ELSE ReducerFn(f, FoldFrom(s, f, init, i - 1), s[i], i - 1)

\* C21: S.reduce(fn, initial) invokes fn once per element, in order, as
\* fn(acc, x_i, i) for i = 0..n-1 with acc starting as initial, whatever fn
\* returns on the way, and returns the last accumulator (initial for an empty S)
C21_ReduceFromInitial ==
  (stages = <<>> /\ Latest("reduceFrom")) =>
    LET S == srcOut.first
        f == aux[1].eq
        result == aux[1].out[1]
        calls == aux[1].out[2]
        initial == aux[1].out[3]
    IN /\ Len(calls) = Len(S)
       /\ \A i \in DOMAIN S : calls[i] = <<FoldFrom(S, f, initial, i - 1), S[i], i - 1>>
       /\ result = FoldFrom(S, f, initial, Len(S))


\* the elements of s from position n (counting from 0) on
From(s, n) == SubSeq(s, (IF n < 0 THEN 0 ELSE n) + 1, Len(s))

\* C23: S.drop(n) yields the elements of S at positions n..m-1 in order, nothing
\* when n >= m; with n <= 0 drop(n) yields the whole of S and take(n) nothing
C23_DropAndNonPositiveCounts ==
  LET S == srcOut.first
      n == stages[1].n
  IN /\ OneStage("drop") =>
          \A i \in DOMAIN outs :
            /\ outs[i] = From(S, n)
            /\ n >= Len(S) => outs[i] = <<>>
            /\ n <= 0 => outs[i] = S
     /\ (OneStage("take") /\ n <= 0) => \A i \in DOMAIN outs : outs[i] = <<>>

\* C23 witness: a drop that skips some elements and yields others, traversed
C23_Witness ==
  /\ OneStage("drop") /\ stages[1].n > 0 /\ outs # <<>>
  /\ outs[1] # <<>> /\ Len(outs[1]) < Len(srcOut.first)


\* the suffix of s that starts at its first element x with p(x) = verdict
RECURSIVE SuffixFrom(_, _, _)
SuffixFrom(s, p, verdict) ==
  IF s = <<>> THEN <<>>
  ELSE IF Pred(p, s[1], 0) = verdict THEN s ELSE SuffixFrom(Tail(s), p, verdict)

\* C24: S.dropWhile(p) yields the suffix of S that starts at the first element
\* failing p, and S.dropUntil(p) the suffix that starts at the first element
\* satisfying p; later elements are yielded untested, nothing is yielded when
\* no element ends the dropping
C24_DropWhileUntil ==
  LET S == srcOut.first
  IN /\ OneStage("dropWhile") =>
          \A i \in DOMAIN outs : outs[i] = SuffixFrom(S, stages[1].fn, FALSE)
     /\ OneStage("dropUntil") =>
          \A i \in DOMAIN outs : outs[i] = SuffixFrom(S, stages[1].fn, TRUE)

\* C24 witness: dropWhile has dropped an element and yielded, after the one that
\* failed p, an element that satisfies p
C24_Witness ==
  /\ OneStage("dropWhile") /\ outs # <<>>
  /\ Len(outs[1]) >= 2 /\ Len(outs[1]) < Len(srcOut.first)
  /\ Pred(stages[1].fn, outs[1][2], 0)


\* n copies of s, one after the other
RECURSIVE Copies(_, _)
Copies(s, n) == IF n <= 0 THEN <<>> ELSE s \o Copies(s, n - 1)

\* C25: S.replicate(n).toArray() is n copies of S.toArray() (empty when n <= 0
\* or S is empty); a traversal invokes the upstream factory once per repetition
\* and creates an upstream cursor only when every earlier one is exhausted, so
\* a full traversal makes n cursors and n * (m + 1) upstream next() calls
C25_Replicate ==
  OneStage("replicate") =>
    LET S == srcOut.first
        m == Len(S)
        n == IF stages[1].n < 0 THEN 0 ELSE stages[1].n
        made == work.calls[1]
        pulled == work.pulls[0]
    IN /\ \A i \in DOMAIN outs : outs[i] = Copies(S, n)
       /\ work.op = "terminal" =>
            /\ made <= n
            /\ pulled <= made * (m + 1)
            /\ made > 0 => pulled > (made - 1) * (m + 1)
            /\ work.pulls[1] = n * m + 1 => (made = n /\ pulled = n * (m + 1))

\* C25 witness: a replicate(n), n >= 2, of a non-empty S has been traversed to
\* the end and, after that, asked for its head, which made one upstream cursor
C25_Witness ==
  /\ OneStage("replicate") /\ stages[1].n >= 2 /\ srcOut.first # <<>>
  /\ outs # <<>> /\ Len(outs[1]) = stages[1].n * Len(srcOut.first)
  /\ Latest("head") /\ work.calls[1] = 1 /\ work.pulls[0] = 1


\* the top handle is S.init().append(S.last())
IsInitAppendLast ==
  /\ Len(stages) = 2 /\ stages[1].op = "init" /\ stages[2].op = "append"
  /\ stages[2].n = StreamLast(SrcEnv, <<>>).out

\* C28: init() yields all of S but its last element and tail() all but its
\* first, in order; for a non-empty S both S.init().append(S.last()) and
\* [S.head()] followed by S.tail() give S.toArray(); S.concat(b) gives
\* S.toArray() followed by b.toArray(); init() and tail() of an empty or
\* one-element S are empty
C28_InitTailAppendConcat ==
  LET S == srcOut.first
      m == Len(S)
  IN /\ OneStage("init") =>
          \A i \in DOMAIN outs :
            /\ outs[i] = SubSeq(S, 1, m - 1)
            /\ m <= 1 => outs[i] = <<>>
     /\ OneStage("tail") =>
          \A i \in DOMAIN outs :
            /\ outs[i] = SubSeq(S, 2, m)
            /\ m <= 1 => outs[i] = <<>>
            /\ m >= 1 => <<StreamHead(SrcEnv, <<>>).out>> \o outs[i] = S
     /\ (IsInitAppendLast /\ m >= 1) => \A i \in DOMAIN outs : outs[i] = S
     /\ (OneStage("concat") /\ stages[1].other \in ConcatOthers) =>
          \A i \in DOMAIN outs :
            outs[i] = S \o ToArray(Env(heap, src, stages[1].other), NoSeen(stages[1].other)).out

\* C28 witness: S.init().append(S.last()) of an S with two or more elements has
\* been traversed
C28_Witness ==
  /\ IsInitAppendLast /\ Len(srcOut.first) >= 2
  /\ outs # <<>> /\ outs[1] = srcOut.first


\* C22: for S of length n, S.inits() emits exactly n+1 streams, the k-th
\* (k = 0..n) being the first k elements of S, and S.tails() exactly n+1 streams,
\* the k-th being S without its first k elements; every emitted stream gives the
\* same array when traversed again, in another order; and
\* inits().last().toArray() = tails().head().toArray() = S.toArray()
C22_InitsTails ==
  LET S == srcOut.first
      n == Len(S)
  IN /\ (stages = <<>> /\ Latest("inits")) =>
          /\ Len(aux[1].out[1]) = n + 1
          /\ \A k \in 0..n : aux[1].out[1][k + 1] = SubSeq(S, 1, k)
          /\ aux[1].out[2] = aux[1].out[1]
          /\ aux[1].out[3] = [raised |-> FALSE, out |-> S]
     /\ (stages = <<>> /\ Latest("tails")) =>
          /\ Len(aux[1].out[1]) = n + 1
          /\ \A k \in 0..n : aux[1].out[1][k + 1] = SubSeq(S, k + 1, n)
          /\ aux[1].out[2] = aux[1].out[1]
          /\ aux[1].out[3] = [raised |-> FALSE, out |-> S]

\* C22 witness: inits() of an S with two or more elements has emitted its
\* streams and they were traversed
C22_Witness ==
  /\ stages = <<>> /\ Latest("inits") /\ Len(srcOut.first) >= 2
  /\ Len(aux[1].out[1]) = Len(srcOut.first) + 1
  /\ aux[1].out[1][2] = <<srcOut.first[1]>>


\* S is empty(), that is fromArray([])
IsEmptyStream == src = FromArray(1) /\ heap[1] = <<>>

\* the operations that return one stream
StreamOps ==
  {"filter", "map", "sorted", "init", "tail", "take", "takeWhile", "takeUntil",
   "drop", "dropWhile", "dropUntil", "distinct", "replicate"}

\* C26: on empty() filter, map, flatMap, sorted (with or without comparator),
\* init, tail, take, takeWhile, takeUntil, drop, dropWhile, dropUntil, distinct
\* and replicate give an empty stream, group gives no groups, partition two
\* empty streams, inits and tails one empty stream each, isEmpty is true, size
\* is 0, head and last are undefined, and nothing is raised
C26_EmptyStream ==
  IsEmptyStream =>
    /\ ((Len(stages) = 1 /\ stages[1].op \in StreamOps) \/ IsFlatMap) =>
         \A i \in DOMAIN outs : outs[i] = <<>>
    /\ Latest("group") => aux[1].out = <<>>
    /\ Latest("partition") => aux[1].out = <<<<>>, <<>>>>
    /\ (Latest("inits") \/ Latest("tails")) =>
         /\ aux[1].out[1] = <<<<>>>>
         /\ aux[1].out[3].raised = FALSE
    /\ Latest("isEmpty") => aux[1].out = TRUE
    /\ Latest("size") => aux[1].out = 0
    /\ (Latest("head") \/ Latest("last")) => aux[1].out = Undef

\* C26 witness: tails() of empty() has emitted its one stream, which is empty
C26_Witness ==
  /\ IsEmptyStream /\ stages = <<>> /\ Latest("tails")
  /\ Len(aux[1].out[1]) = 1 /\ aux[1].out[1][1] = <<>>


\* next applied i times to x
RECURSIVE Iterate(_, _, _)
Iterate(s, x, i) == IF i = 0 THEN x ELSE RangeNext(s, Iterate(s, x, i - 1))

\* out is start, next(start), next(next(start)), ... up to, and without, the
\* first of these values for which hasNext is false
IsRangeOf(s, out) ==
  /\ \A i \in DOMAIN out : out[i] = Iterate(s, s.start, i - 1) /\ HasNext(s, out[i])
  /\ ~HasNext(s, Iterate(s, s.start, Len(out)))

\* C27: intRange(start, hasNext, next) yields start, next(start), ... and stops
\* the first time hasNext is false for the current value, which is not yielded;
\* it is empty when hasNext(start) is false, and every traversal starts from
\* start again
C27_IntRange ==
  (src.kind = "range" /\ aux # <<>>) =>
    /\ IsRangeOf(src, srcOut.first)
    /\ ~HasNext(src, src.start) => srcOut.first = <<>>
    /\ srcOut.latest = srcOut.first
    /\ Latest("head") =>
         aux[1].out = (IF HasNext(src, src.start) THEN src.start ELSE Undef)
    /\ Latest("size") => aux[1].out = Len(srcOut.first)

\* C27 witness: a range that stopped at a value failing hasNext although a later
\* value would pass it, traversed a second time
C27_Witness ==
  /\ src.kind = "range" /\ Latest("source")
  /\ srcOut.latest # <<>>
  /\ HasNext(src, Iterate(src, src.start, Len(srcOut.latest) + 1))


\* the elements all inner toArray() calls have yielded so far
RECURSIVE Consumed(_)
Consumed(runs) == IF runs = <<>> THEN 0 ELSE Len(runs[1].out) + Consumed(Tail(runs))

\* C29 as stated: no next() on the outer iterator of S.group() advances the
\* upstream, only pulls on inner streams do; while no inner stream has been
\* pulled, every outer next() over a non-empty S emits another stream and the
\* outer iterator is never done
C29_OuterNeverAdvances ==
  gr.opc \in {"yield", "done"} =>
    /\ gr.byOuter = 0
    /\ gr.g.tr.pulls[0] = Consumed(gr.runs)
    /\ (gr.runs = <<>> /\ srcOut.first # <<>>) =>
         (gr.opc = "yield" /\ gr.emitted = gr.asked)

\* C29 amended: the first next() on the outer iterator of S.group() creates the
\* upstream iterator and calls its next() once; no later outer next() advances
\* the upstream, every other upstream next() is made by a pull on an inner
\* stream; while no inner stream has been pulled, every outer next() over a
\* non-empty S emits another stream and the outer iterator is never done
C29_OuterAdvancesOnlyAtStart ==
  gr.opc \in {"yield", "done"} =>
    /\ gr.byOuter = 1
    /\ gr.g.tr.pulls[0] = 1 + Consumed(gr.runs)
    /\ (gr.runs = <<>> /\ srcOut.first # <<>>) =>
         (gr.opc = "yield" /\ gr.emitted = gr.asked)

\* C29 witness: the outer iterator was asked more often than S has elements,
\* no inner stream was pulled, and it emitted a stream every time
C29_Witness ==
  /\ gr.opc = "yield" /\ gr.runs = <<>>
  /\ srcOut.first # <<>> /\ gr.emitted > Len(srcOut.first)


\* the length of the run of equal elements that s starts with
RECURSIVE RunLength(_)
RunLength(s) ==
  IF Len(s) <= 1 THEN Len(s)
  ELSE IF s[2] = s[1] THEN 1 + RunLength(Tail(s)) ELSE 1

\* the maximal runs of adjacent equal elements of s, in order
RECURSIVE RunsOf(_)
RunsOf(s) ==
  IF s = <<>> THEN <<>>
  ELSE <<SubSeq(s, 1, RunLength(s))>> \o RunsOf(SubSeq(s, RunLength(s) + 1, Len(s)))

\* C30: an inner stream of S.group() that is traversed again does not give its
\* run again: the k-th toArray() made on inner streams of one outer traversal,
\* on whichever stream, returns the k-th run of S, and nothing once the runs of
\* S are used up; so a second traversal right after the first returns the next run
C30_InnerNotRetraversable ==
  LET R == RunsOf(srcOut.first)
  IN \A k \in DOMAIN gr.runs :
       (\E i \in 1..(k - 1) : gr.runs[i].stream = gr.runs[k].stream) =>
         /\ gr.runs[k].out = (IF k <= Len(R) THEN R[k] ELSE <<>>)
         /\ (gr.runs[k - 1].stream = gr.runs[k].stream /\ gr.runs[k - 1].out # <<>>) =>
              gr.runs[k].out # gr.runs[k - 1].out

\* C30 witness: the first emitted stream was traversed twice in a row and the
\* second traversal returned the second run of S
C30_Witness ==
  /\ Len(gr.runs) = 2 /\ gr.emitted = 1
  /\ gr.runs[1].stream = 1 /\ gr.runs[2].stream = 1
  /\ gr.runs[1].out # <<>> /\ gr.runs[2].out # <<>>


====
